---- MODULE Spec2Model ----
(***************************************************************************)
(* Trace-context propagation of the customer onboarding demo:              *)
(*   - the producer (onboarding-api/app.py, app.clean.py): HTTP entry      *)
(*     points that open a root span, run business steps in child spans and *)
(*     hand a message to SQS with an injected W3C traceparent;             *)
(*   - the consumer (onboarding-lambda/app.py): the Lambda handler that    *)
(*     rebuilds the carrier from the SQS message attributes, extracts the  *)
(*     remote context, opens one sqs.process span per record, one          *)
(*     sqs.batch span per batch, and force-flushes the exporter.           *)
(*                                                                         *)
(* Texts (attribute keys, traceparent values) are sequences of one-letter  *)
(* strings, so that lower-casing, stripping, hex formatting and the        *)
(* traceparent pattern are computed and not assumed.  Trace and span ids   *)
(* are naturals; the id generator of the SDK (random 128/64-bit values) is *)
(* abstracted to "a value never handed out before and never seen on the    *)
(* wire".                                                                  *)
(***************************************************************************)
EXTENDS Integers, Sequences, FiniteSets, TLC

(***************************************************************************)
(* Bounds of the model                                                     *)
(***************************************************************************)
\* largest batch the handler is given
MaxRecords == 2
\* remote trace ids and span ids that occur on the wire are 1..MaxRemoteId
MaxRemoteId == 2

(***************************************************************************)
(* Texts                                                                   *)
(***************************************************************************)
HexChars == <<"0","1","2","3","4","5","6","7","8","9","a","b","c","d","e","f">>

IsHexChar(c) == \E i \in 1..16 : HexChars[i] = c

HexVal(c) == (CHOOSE i \in 1..16 : HexChars[i] = c) - 1

IsSpace(c) == c \in {" ", "\t"}

UpperChars == <<"A","C","E","N","P","R","T">>

LowerChars == <<"a","c","e","n","p","r","t">>

\* str.lower() on one letter (the letters that occur in the keys of the model)
LowerChar(c) ==
    IF \E i \in 1..Len(UpperChars) : UpperChars[i] = c
    THEN LowerChars[CHOOSE i \in 1..Len(UpperChars) : UpperChars[i] = c]
    ELSE c

\* str.lower()
Lower(s) == [i \in 1..Len(s) |-> LowerChar(s[i])]

RECURSIVE LStrip(_)
LStrip(s) == IF s # <<>> /\ IsSpace(Head(s)) THEN LStrip(Tail(s)) ELSE s

RECURSIVE RStrip(_)
RStrip(s) ==
    IF s # <<>> /\ IsSpace(s[Len(s)]) THEN RStrip(SubSeq(s, 1, Len(s) - 1)) ELSE s

\* str.strip()
Strip(s) == RStrip(LStrip(s))

\* s.split("-"): the segments between dashes
RECURSIVE SplitDash(_)
SplitDash(s) ==
    IF \A i \in 1..Len(s) : s[i] # "-"
    THEN <<s>>
    ELSE LET k == CHOOSE i \in 1..Len(s) :
                      s[i] = "-" /\ \A j \in 1..(i - 1) : s[j] # "-"
         IN  <<SubSeq(s, 1, k - 1)>> \o SplitDash(SubSeq(s, k + 1, Len(s)))

\* format(n, "0<w>x"): lower-case hex, zero padded to w digits
RECURSIVE ToHex(_, _)
ToHex(n, w) ==
    IF w = 0 THEN <<>> ELSE Append(ToHex(n \div 16, w - 1), HexChars[(n % 16) + 1])

\* int(s, 16) for a text of hex digits
RECURSIVE FromHex(_)
FromHex(s) ==
    IF s = <<>> THEN 0
    ELSE FromHex(SubSeq(s, 1, Len(s) - 1)) * 16 + HexVal(s[Len(s)])

IsHex(s, w) == Len(s) = w /\ \A i \in 1..w : IsHexChar(s[i])

RECURSIVE Join(_)
Join(segs) ==
    IF Len(segs) = 1 THEN segs[1] ELSE segs[1] \o <<"-">> \o Join(Tail(segs))

Zeros(w) == [i \in 1..w |-> "0"]

(***************************************************************************)
(* W3C trace context                                                       *)
(***************************************************************************)
TraceIdHexLen == 32
SpanIdHexLen == 16
FlagsHexLen == 2

INVALID_SPAN_CONTEXT ==
    [trace_id |-> 0, span_id |-> 0, trace_flags |-> 0, is_remote |-> FALSE]

is_valid(sc) == sc.trace_id # 0 /\ sc.span_id # 0

traceparent == <<"t","r","a","c","e","p","a","r","e","n","t">>

\* A carrier is a sequence of <<key, text>> pairs with distinct keys.
CarrierGet(carrier, key) ==
    IF \E i \in 1..Len(carrier) : carrier[i][1] = key
    THEN [found |-> TRUE,
          val |-> carrier[CHOOSE i \in 1..Len(carrier) : carrier[i][1] = key][2]]
    ELSE [found |-> FALSE, val |-> <<>>]

CarrierSet(carrier, key, val) ==
    IF \E i \in 1..Len(carrier) : carrier[i][1] = key
    THEN [i \in 1..Len(carrier) |->
             IF carrier[i][1] = key THEN <<key, val>> ELSE carrier[i]]
    ELSE Append(carrier, <<key, val>>)

\* propagate.inject(carrier) with `sc` the context of the current span
inject(sc) ==
    IF ~is_valid(sc) THEN <<>>
    ELSE <<  <<traceparent,
               Join(<<ToHex(0, 2),
                      ToHex(sc.trace_id, TraceIdHexLen),
                      ToHex(sc.span_id, SpanIdHexLen),
                      ToHex(sc.trace_flags, FlagsHexLen)>>)>>  >>

\* the traceparent pattern
\*   ^[ \t]*([0-9a-f]{2})-([0-9a-f]{32})-([0-9a-f]{16})-([0-9a-f]{2})(-.*)?[ \t]*$
TraceparentMatch(header) ==
    LET segs == SplitDash(LStrip(header))
    IN  /\ Len(segs) >= 4
        /\ IsHex(segs[1], 2)
        /\ IsHex(segs[2], TraceIdHexLen)
        /\ IsHex(segs[3], SpanIdHexLen)
        /\ IF Len(segs) = 4 THEN IsHex(RStrip(segs[4]), FlagsHexLen)
                            ELSE IsHex(segs[4], FlagsHexLen)

\* propagate.extract(carrier): the span context found in the carrier, or the
\* invalid one ("no parent")
extract(carrier) ==
    LET got == CarrierGet(carrier, traceparent)
    IN  IF ~got.found \/ got.val = <<>> THEN INVALID_SPAN_CONTEXT
        ELSE IF ~TraceparentMatch(got.val) THEN INVALID_SPAN_CONTEXT
        ELSE LET segs == SplitDash(LStrip(got.val))
                 flags == IF Len(segs) = 4 THEN RStrip(segs[4]) ELSE segs[4]
             IN  IF segs[2] = Zeros(TraceIdHexLen) \/ segs[3] = Zeros(SpanIdHexLen)
                 THEN INVALID_SPAN_CONTEXT
                 ELSE IF segs[1] = <<"0","0">> /\ Len(segs) > 4
                 THEN INVALID_SPAN_CONTEXT
                 ELSE IF segs[1] = <<"f","f">>
                 THEN INVALID_SPAN_CONTEXT
                 ELSE [trace_id |-> FromHex(segs[2]),
                       span_id |-> FromHex(segs[3]),
                       trace_flags |-> FromHex(flags),
                       is_remote |-> TRUE]

(***************************************************************************)
(* SQS message attributes, as the Lambda event carries them                *)
(***************************************************************************)
\* Python values an attribute entry can hold under a field
PyNone == [tag |-> "none", s |-> <<>>]

PyStr(s) == [tag |-> "str", s |-> s]

\* a value that is neither None nor a str (bytes of a binary attribute)
PyBytes == [tag |-> "bytes", s |-> <<>>]

Truthy(v) == v.tag = "bytes" \/ (v.tag = "str" /\ v.s # <<>>)

\* a or b
PyOr(a, b) == IF Truthy(a) THEN a ELSE b

\* An entry is a mapping; v.get(field) is None for a field it does not hold.
Entry(lowerField, upperField) == [stringValue |-> lowerField, StringValue |-> upperField]

\* the body of the loop of _carrier_from_sqs_attributes without its
\* isinstance guard: sv.strip() is called on whatever sv is
carrier_step_unguarded(acc, kv) ==
    LET sv == PyOr(kv[2].stringValue, kv[2].StringValue)
    IN  IF acc.raised THEN acc
        ELSE IF sv.tag = "str"
        THEN [raised |-> FALSE, carrier |-> CarrierSet(acc.carrier, Lower(kv[1]), Strip(sv.s))]
        ELSE [raised |-> TRUE, carrier |-> acc.carrier]

\* the body of the loop without key = k.lower()
carrier_step_keep_case(acc, kv) ==
    LET sv == PyOr(kv[2].stringValue, kv[2].StringValue)
    IN  IF sv.tag = "str"
        THEN [raised |-> FALSE, carrier |-> CarrierSet(acc.carrier, kv[1], Strip(sv.s))]
        ELSE acc

\* the body of the loop reading only the field stringValue
carrier_step_lower_field_only(acc, kv) ==
    LET sv == kv[2].stringValue
    IN  IF sv.tag = "str"
        THEN [raised |-> FALSE, carrier |-> CarrierSet(acc.carrier, Lower(kv[1]), Strip(sv.s))]
        ELSE acc

\* one iteration of the loop of _carrier_from_sqs_attributes
carrier_step(acc, kv) ==
    LET key == Lower(kv[1])
        sv == PyOr(kv[2].stringValue, kv[2].StringValue)
    IN  IF sv.tag = "str"
        THEN [raised |-> FALSE, carrier |-> CarrierSet(acc.carrier, key, Strip(sv.s))]
        ELSE acc

RECURSIVE carrier_fold(_, _)
carrier_fold(acc, items) ==
    IF items = <<>> THEN acc
    ELSE carrier_fold(carrier_step(acc, Head(items)), Tail(items))

\* _carrier_from_sqs_attributes(attrs); attrs is None (present = FALSE) or a
\* mapping, given as the sequence of its <<key, entry>> items in order.
\* raised tells whether the call ended in an exception.
carrier_from_sqs_attributes(attrs) ==
    carrier_fold([raised |-> FALSE, carrier |-> <<>>],
                 IF attrs.present THEN attrs.items ELSE <<>>)

(***************************************************************************)
(* Span model and tracer (the SDK behind tracer.start_as_current_span)     *)
(***************************************************************************)
UNSET == [code |-> "UNSET", msg |-> ""]

StatusError(msg) == [code |-> "ERROR", msg |-> msg]

\* the context argument of start_as_current_span: absent, or an explicit one
NoContext == [given |-> FALSE, sc |-> INVALID_SPAN_CONTEXT]

ExplicitContext(sc) == [given |-> TRUE, sc |-> sc]

\* trace.get_current_span().get_span_context() for a stack of attached spans
CurrentSpanContext(sp, stk) ==
    IF stk = <<>> THEN INVALID_SPAN_CONTEXT ELSE sp[stk[Len(stk)]].context

\* the parent of a new span: the explicit context when one is given, the
\* current span of the caller's stack otherwise
ParentOf(context, sp, stk) ==
    IF context.given THEN context.sc ELSE CurrentSpanContext(sp, stk)

\* default sampler, ParentBased(ALWAYS_ON): a root is sampled, a child
\* follows the sampled flag of its parent
Sampled(parent) == IF is_valid(parent) THEN parent.trace_flags % 2 = 1 ELSE TRUE

\* ids the generator hands out for a span with this parent
IdsUsed(parent) == IF is_valid(parent) THEN 1 ELSE 2

\* the span start_span builds; `fresh` is a pair of ids the generator has
\* not handed out yet (a root takes both, a child the first)
NewSpan(name, kind, parent, lnks, fresh) ==
    [name |-> name,
     kind |-> kind,
     context |-> [trace_id |-> IF is_valid(parent) THEN parent.trace_id ELSE fresh[1],
                  span_id |-> IF is_valid(parent) THEN fresh[1] ELSE fresh[2],
                  trace_flags |-> IF Sampled(parent) THEN 1 ELSE 0,
                  is_remote |-> FALSE],
     parent |-> parent,
     links |-> lnks,
     attributes |-> {},
     status |-> UNSET,
     recording |-> Sampled(parent),
     ended |-> FALSE]

\* span.set_attribute(key, value): a no-op on a span that is not recording
\* or has ended
SetAttr(span, key, value) ==
    IF span.recording /\ ~span.ended
    THEN [span EXCEPT !.attributes =
             {kv \in @ : kv[1] # key} \cup {<<key, value>>}]
    ELSE span

RECURSIVE SetAttrs(_, _)
SetAttrs(span, kvs) ==
    IF kvs = <<>> THEN span
    ELSE SetAttrs(SetAttr(span, Head(kvs)[1], Head(kvs)[2]), Tail(kvs))

\* span.set_status(Status(code, msg))
SetStatus(span, st) ==
    IF span.recording /\ ~span.ended THEN [span EXCEPT !.status = st] ELSE span

\* span.end()
EndSpan(span) == IF span.recording THEN [span EXCEPT !.ended = TRUE] ELSE span

\* leaving the scope of a span through an exception: the SDK records the
\* exception, sets status ERROR and ends the span
EndSpanOnException(span, msg) == EndSpan(SetStatus(span, StatusError(msg)))

Top(stk) == stk[Len(stk)]

\* leaving a scope without detaching its span
Pop_keep(stk) == stk

Pop(stk) == SubSeq(stk, 1, Len(stk) - 1)

(***************************************************************************)
(* State                                                                   *)
(***************************************************************************)
VARIABLES
    event,            \* the event the Lambda handler is invoked with
    skip_otel_init,   \* os.getenv("SKIP_OTEL_INIT") is set
    pc,               \* position of the handler
    spans,            \* every span started, in order of creation
    stack,            \* spans attached as current in the handler's context
    nextId,           \* next value of the id generator
    links,            \* handler's list `links`
    processed_count,  \* handler's processed_count
    idx,              \* index of the record the loop is at
    pending,          \* queue of the BatchSpanProcessor: ended, not yet exported
    exported,         \* spans the exporter has sent
    dropped,          \* spans lost to a failed transmission
    flush_log,        \* one entry per force_flush call of the handler
    ret,              \* what the handler returned
    codec,            \* one message on its way from the producer to the consumer
    req,              \* the HTTP requests of the API, each with its own context
    sent              \* messages handed to sqs.send_message, in order

\* state of the Lambda invocation
lambda_vars == <<event, skip_otel_init, pc, spans, stack, nextId, links,
                 processed_count, idx, pending, exported, dropped, flush_log, ret>>

\* state of the API process
api_vars == <<req, sent>>

vars == <<event, skip_otel_init, pc, spans, stack, nextId, links,
          processed_count, idx, pending, exported, dropped, flush_log, ret,
          codec, req, sent>>

(***************************************************************************)
(* Inputs of the handler                                                   *)
(***************************************************************************)
RemoteIds == 1..MaxRemoteId

\* a traceparent text with the given version text, ids and flags
TP(version, tid, sid, flags) ==
    Join(<<version, ToHex(tid, TraceIdHexLen), ToHex(sid, SpanIdHexLen),
           ToHex(flags, FlagsHexLen)>>)

V00 == <<"0","0">>

TRACEPARENT == <<"T","R","A","C","E","P","A","R","E","N","T">>

customer_id_key == <<"c","u","s","t","o","m","e","r",".","i","d">>

Attrs(items) == [present |-> TRUE, items |-> items]

NoAttrs == [present |-> FALSE, items |-> <<>>]

\* the event source mapping delivers a String attribute under stringValue
StringAttr(text) == Entry(PyStr(text), PyNone)

\* a Binary attribute has no string value
BinaryAttr == Entry(PyNone, PyNone)

\* the context a well-formed traceparent was written from
Origin(tid, sid, flags) ==
    [trace_id |-> tid, span_id |-> sid, trace_flags |-> flags, is_remote |-> TRUE]

\* A choice of message attributes, with the context its producer wrote into
\* it (origin; the invalid context when it carries no usable traceparent).
Choice(attrs, origin) == [messageAttributes |-> attrs, origin |-> origin]

\* message attributes that carry a well-formed traceparent
ValidAttrChoices ==
    {Choice(Attrs(<< <<traceparent, StringAttr(TP(V00, t, s, 1))>> >>), Origin(t, s, 1)) :
        t \in RemoteIds, s \in RemoteIds}
    \cup {Choice(Attrs(<< <<traceparent, StringAttr(TP(V00, 1, 1, 0))>> >>),
                 Origin(1, 1, 0)),
          Choice(Attrs(<< <<TRACEPARENT, StringAttr(TP(V00, 1, 2, 1))>> >>),
                 Origin(1, 2, 1)),
          Choice(Attrs(<< <<traceparent,
                            StringAttr(<<" ">> \o TP(V00, 2, 1, 1) \o <<" ">>)>>,
                          <<customer_id_key, StringAttr(<<"c","1">>)>> >>),
                 Origin(2, 1, 1))}

\* traceparent texts that are malformed: too few segments, too many segments
\* for version 00, a trace id one digit short, an all-zero trace id
MalformedTexts ==
    {Join(<<V00, ToHex(1, TraceIdHexLen), ToHex(1, SpanIdHexLen)>>),
     Join(<<V00, ToHex(1, TraceIdHexLen), ToHex(1, SpanIdHexLen),
            ToHex(1, FlagsHexLen), <<"x">> >>),
     Join(<<V00, ToHex(1, TraceIdHexLen - 1), ToHex(1, SpanIdHexLen),
            ToHex(1, FlagsHexLen)>>),
     Join(<<V00, Zeros(TraceIdHexLen), ToHex(1, SpanIdHexLen), ToHex(1, FlagsHexLen)>>)}

\* message attributes without a usable traceparent: absent, empty, without
\* the key, with a malformed text, or with an entry that has no string value
NoParentAttrChoices ==
    {Choice(NoAttrs, INVALID_SPAN_CONTEXT),
     Choice(Attrs(<<>>), INVALID_SPAN_CONTEXT),
     Choice(Attrs(<< <<customer_id_key, StringAttr(<<"c","1">>)>> >>),
            INVALID_SPAN_CONTEXT),
     Choice(Attrs(<< <<traceparent, BinaryAttr>> >>), INVALID_SPAN_CONTEXT)}
    \cup {Choice(Attrs(<< <<traceparent, StringAttr(text)>> >>), INVALID_SPAN_CONTEXT) :
            text \in MalformedTexts}

AttrChoices == ValidAttrChoices \cup NoParentAttrChoices

\* rec["body"]: what json.loads makes of it
BodyChoices ==
    {[kind |-> "object", customer_id |-> "c1", request_id |-> "r1"],
     [kind |-> "object", customer_id |-> "", request_id |-> ""],
     [kind |-> "non_object", customer_id |-> "", request_id |-> ""],
     [kind |-> "invalid_json", customer_id |-> "", request_id |-> ""]}

DefaultBody == [kind |-> "object", customer_id |-> "c1", request_id |-> "r1"]

PlainChoice ==
    Choice(Attrs(<< <<traceparent, StringAttr(TP(V00, 1, 1, 1))>> >>), Origin(1, 1, 1))

Record(choice, body) ==
    [messageAttributes |-> choice.messageAttributes, origin |-> choice.origin,
     body |-> body]

\* every kind of record, each handled in a batch of its own
RecordChoices ==
    {Record(c, DefaultBody) : c \in AttrChoices}
    \cup {Record(PlainChoice, b) : b \in BodyChoices}

\* the kinds of record that are combined into larger batches: traces 1.. with
\* one or two producer spans, a context that is not sampled, no attributes,
\* a malformed traceparent, a body that is no JSON
CoreRecordChoices ==
    {Record(Choice(Attrs(<< <<traceparent, StringAttr(TP(V00, t, 1, 1))>> >>),
                   Origin(t, 1, 1)), DefaultBody) : t \in RemoteIds}
    \cup {Record(Choice(Attrs(<< <<traceparent, StringAttr(TP(V00, 1, 2, 1))>> >>),
                        Origin(1, 2, 1)), DefaultBody),
          Record(Choice(Attrs(<< <<traceparent, StringAttr(TP(V00, 1, 1, 0))>> >>),
                        Origin(1, 1, 0)), DefaultBody),
          Record(Choice(NoAttrs, INVALID_SPAN_CONTEXT), DefaultBody),
          Record(Choice(Attrs(<< <<traceparent,
                                   StringAttr(Join(<<V00, ToHex(1, TraceIdHexLen - 1),
                                                     ToHex(1, SpanIdHexLen),
                                                     ToHex(1, FlagsHexLen)>>))>> >>),
                        INVALID_SPAN_CONTEXT), DefaultBody),
          Record(PlainChoice,
                 [kind |-> "invalid_json", customer_id |-> "", request_id |-> ""])}

\* event: not a mapping, a mapping without the key Records, a mapping with
\* an empty list of Records, or a mapping with Records
EventChoices ==
    {[is_dict |-> FALSE, has_Records |-> FALSE, Records |-> <<>>],
     [is_dict |-> TRUE, has_Records |-> FALSE, Records |-> <<>>],
     [is_dict |-> TRUE, has_Records |-> TRUE, Records |-> <<>>]}
    \cup {[is_dict |-> TRUE, has_Records |-> TRUE, Records |-> <<r>>] : r \in RecordChoices}
    \cup {[is_dict |-> TRUE, has_Records |-> TRUE, Records |-> rs] :
            rs \in UNION {[1..n -> CoreRecordChoices] : n \in 1..MaxRecords}}

\* rec.get("messageId"): the position of the record in the batch
MessageId(i) == ToString(i)

NoReturn == [kind |-> "pending", ok |-> FALSE, source |-> "", processed |-> 0, batch_size |-> 0]

LambdaInit ==
    /\ event \in EventChoices
    /\ skip_otel_init \in BOOLEAN
    /\ pc = "start"
    /\ spans = <<>>
    /\ stack = <<>>
    /\ nextId = MaxRemoteId + 1
    /\ links = <<>>
    /\ processed_count = 0
    /\ idx = 1
    /\ pending = <<>>
    /\ exported = {}
    /\ dropped = {}
    /\ flush_log = <<>>
    /\ ret = NoReturn

(***************************************************************************)
(* The Lambda handler (onboarding-lambda/app.py)                           *)
(***************************************************************************)
Range(q) == {q[i] : i \in DOMAIN q}

\* records = (event.get("Records") or []) if isinstance(event, dict) else []
RecordsOf(ev) == IF ev.is_dict /\ ev.has_Records THEN ev.Records ELSE <<>>

\* sqs.process is started with context=None: the current span is the parent
sqs_process_context_none(ctx) == NoContext

\* sqs.process is started with the extracted context only when it is valid
sqs_process_context_fallback(ctx) ==
    IF is_valid(ctx) THEN ExplicitContext(ctx) ELSE NoContext

\* the context argument of start_as_current_span("sqs.process", context=ctx)
sqs_process_context(ctx) == ExplicitContext(ctx)

\* the context argument of start_as_current_span("sqs.batch", links=links):
\* none is given
sqs_batch_context == NoContext

\* a link is added for every record, without looking at parent_sc.is_valid
links_after_unguarded(lnks, parent_sc) == Append(lnks, parent_sc)

\* a link is added only for a trace that has no link yet
links_after_dedup(lnks, parent_sc) ==
    IF is_valid(parent_sc)
       /\ \A i \in 1..Len(lnks) : lnks[i].trace_id # parent_sc.trace_id
    THEN Append(lnks, parent_sc) ELSE lnks

\* if parent_sc.is_valid: links.append(Link(parent_sc))
links_after(lnks, parent_sc) ==
    IF is_valid(parent_sc) THEN Append(lnks, parent_sc) ELSE lnks

\* span.end() of a span of the Lambda: a recording span goes to the queue of
\* the BatchSpanProcessor
EndInLambda(i, endedSpan) ==
    /\ spans' = [spans EXCEPT ![i] = endedSpan]
    /\ pending' = IF spans[i].recording THEN Append(pending, i) ELSE pending

FlushOutcomes == IF pending = <<>> THEN {"ok"} ELSE {"ok", "transport_failure", "timeout"}

\* provider.force_flush(timeout_millis=4000): drains the queue and sends it
\* ("ok"), sends it and loses it to a failed transmission, or gives up at
\* the timeout with the queue as it was
ForceFlush(outcome) ==
    /\ flush_log' = Append(flush_log,
                           [result |-> outcome # "timeout",
                            ended_then |-> {i \in DOMAIN spans : spans[i].ended}])
    /\ pending' = IF outcome = "timeout" THEN pending ELSE <<>>
    /\ exported' = IF outcome = "ok" THEN exported \cup Range(pending) ELSE exported
    /\ dropped' = IF outcome = "transport_failure" THEN dropped \cup Range(pending)
                                                  ELSE dropped

\* the handler reports what the last force_flush returned
ok_of_last_flush(flushes) == flushes[Len(flushes)].result

\* "ok": True in the value the handler returns; what force_flush returned
\* (flushes) is not kept by the handler
ok_returned(flushes) == TRUE

\* attributes the handler sets on lambda.invoke
InvokeAttrs ==
    << <<"faas.execution", "req">>, <<"faas.id", "arn">>, <<"cloud.account.id", "acct">> >>

\* handler entry: with SKIP_OTEL_INIT set nothing is done; otherwise
\* lambda.invoke is started as current span and the records are read
H_Start ==
    /\ pc = "start"
    /\ IF skip_otel_init
       THEN /\ pc' = "done"
            /\ ret' = [NoReturn EXCEPT !.kind = "none"]
            /\ UNCHANGED <<spans, stack, nextId>>
       ELSE LET parent == ParentOf(NoContext, spans, stack)
                sp == SetAttrs(NewSpan("lambda.invoke", "SERVER", parent, <<>>, <<nextId, nextId + 1>>),
                               InvokeAttrs)
            IN  /\ spans' = Append(spans, sp)
                /\ stack' = Append(stack, Len(spans) + 1)
                /\ nextId' = nextId + IdsUsed(parent)
                /\ pc' = IF RecordsOf(event) = <<>> THEN "direct" ELSE "loop"
                /\ ret' = ret
    /\ UNCHANGED <<event, skip_otel_init, links, processed_count, idx, pending,
                   exported, dropped, flush_log>>
    /\ UNCHANGED <<codec, req, sent>>

\* lambda.direct_invoke is started in an empty context
direct_invoke_context_empty == ExplicitContext(INVALID_SPAN_CONTEXT)

\* the context argument of start_as_current_span("lambda.direct_invoke"): none
direct_invoke_context == NoContext

\* with tracer.start_as_current_span("lambda.direct_invoke", kind=SERVER)
H_DirectStart ==
    /\ pc = "direct"
    /\ LET parent == ParentOf(direct_invoke_context, spans, stack)
       IN  /\ spans' = Append(spans, NewSpan("lambda.direct_invoke", "SERVER", parent,
                                             <<>>, <<nextId, nextId + 1>>))
           /\ stack' = Append(stack, Len(spans) + 1)
           /\ nextId' = nextId + IdsUsed(parent)
    /\ pc' = "direct_flush"
    /\ UNCHANGED <<event, skip_otel_init, links, processed_count, idx, pending,
                   exported, dropped, flush_log, ret>>
    /\ UNCHANGED <<codec, req, sent>>

\* force_flush on the direct path, inside both scopes
H_DirectFlush ==
    /\ pc = "direct_flush"
    /\ \E outcome \in FlushOutcomes : ForceFlush(outcome)
    /\ pc' = "direct_return"
    /\ UNCHANGED <<event, skip_otel_init, spans, stack, nextId, links,
                   processed_count, idx, ret>>
    /\ UNCHANGED <<codec, req, sent>>

\* return {"ok": True, "source": "direct"}: leaves the scope of
\* lambda.direct_invoke
H_DirectReturn ==
    /\ pc = "direct_return"
    /\ ret' = [kind |-> "value", ok |-> ok_returned(flush_log), source |-> "direct",
               processed |-> 0, batch_size |-> 0]
    /\ EndInLambda(Top(stack), EndSpan(spans[Top(stack)]))
    /\ stack' = Pop(stack)
    /\ pc' = "invoke_exit"
    /\ UNCHANGED <<event, skip_otel_init, nextId, links, processed_count, idx,
                   exported, dropped, flush_log>>
    /\ UNCHANGED <<codec, req, sent>>

\* attributes of sqs.process that do not depend on the body
ProcessAttrs(i) ==
    << <<"messaging.system", "aws.sqs">>, <<"messaging.operation", "process">>,
       <<"messaging.destination", "unknown">>, <<"messaging.message_id", MessageId(i)>>,
       <<"faas.trigger", "pubsub">>, <<"aws.request_id", "req">> >>

\* the business attributes are taken from one place shared by the whole
\* batch, which holds the body of the first record
BodyAttrs_shared(body) ==
    IF RecordsOf(event)[1].body.kind = "object"
    THEN << <<"customer.id", RecordsOf(event)[1].body.customer_id>>,
            <<"business.request_id", RecordsOf(event)[1].body.request_id>>,
            <<"workflow.stage", "lambda_processing">> >>
    ELSE IF RecordsOf(event)[1].body.kind = "invalid_json"
    THEN << <<"processing.decode_error", "True">>, <<"error.message", "JSONDecodeError">> >>
    ELSE <<>>

\* the try/except around json.loads(rec.get("body") or "{}")
BodyAttrs(body) ==
    IF body.kind = "object"
    THEN << <<"customer.id", body.customer_id>>,
            <<"business.request_id", body.request_id>>,
            <<"workflow.stage", "lambda_processing">> >>
    ELSE IF body.kind = "invalid_json"
    THEN << <<"processing.decode_error", "True">>, <<"error.message", "JSONDecodeError">> >>
    ELSE <<>>

\* top of the loop: carrier, extract, link target, start of sqs.process.
\* An exception of the carrier construction leaves the handler through the
\* scope of lambda.invoke.
H_RecordStart ==
    /\ pc = "loop"
    /\ LET rec == RecordsOf(event)[idx]
           c == carrier_from_sqs_attributes(rec.messageAttributes)
           ctx == extract(c.carrier)
           parent == ParentOf(sqs_process_context(ctx), spans, stack)
       IN  IF c.raised
           THEN /\ EndInLambda(Top(stack), EndSpanOnException(spans[Top(stack)], "AttributeError"))
                /\ stack' = Pop(stack)
                /\ ret' = [NoReturn EXCEPT !.kind = "raised"]
                /\ pc' = "done"
                /\ UNCHANGED <<nextId, links>>
           ELSE /\ links' = links_after(links, ctx)
                /\ spans' = Append(spans, NewSpan("sqs.process", "CONSUMER", parent,
                                                  <<>>, <<nextId, nextId + 1>>))
                /\ stack' = Append(stack, Len(spans) + 1)
                /\ nextId' = nextId + IdsUsed(parent)
                /\ pc' = "record"
                /\ UNCHANGED <<pending, ret>>
    /\ UNCHANGED <<event, skip_otel_init, processed_count, idx, exported, dropped,
                   flush_log>>
    /\ UNCHANGED <<codec, req, sent>>

\* the record is counted inside the try block, after json.loads
processed_after_decoded(count, body) ==
    IF body.kind = "invalid_json" THEN count ELSE count + 1

\* processed_count += 1, after the try/except around the decoding of the body
processed_after(count, body) == count + 1

\* body of the scope of sqs.process, and its exit
H_RecordBody ==
    /\ pc = "record"
    /\ LET rec == RecordsOf(event)[idx]
           sp == SetAttrs(SetAttrs(spans[Top(stack)], ProcessAttrs(idx)),
                          BodyAttrs(rec.body))
       IN  EndInLambda(Top(stack), EndSpan(sp))
    /\ processed_count' = processed_after(processed_count, RecordsOf(event)[idx].body)
    /\ stack' = Pop(stack)
    /\ idx' = idx + 1
    /\ pc' = IF idx < Len(RecordsOf(event)) THEN "loop" ELSE "batch"
    /\ UNCHANGED <<event, skip_otel_init, nextId, links, exported, dropped,
                   flush_log, ret>>
    /\ UNCHANGED <<codec, req, sent>>

BatchAttrs ==
    << <<"messaging.system", "aws.sqs">>, <<"messaging.operation", "batch_process">>,
       <<"messaging.batch_size", ToString(Len(RecordsOf(event)))>>,
       <<"messaging.processed_count", ToString(processed_count)>>,
       <<"faas.trigger", "pubsub">>, <<"aws.request_id", "req">>,
       <<"workflow.stage", "batch_processing">> >>

\* with tracer.start_as_current_span("sqs.batch", links=links, kind=CONSUMER)
H_BatchStart ==
    /\ pc = "batch"
    /\ LET parent == ParentOf(sqs_batch_context, spans, stack)
       IN  /\ spans' = Append(spans, SetAttrs(NewSpan("sqs.batch", "CONSUMER", parent,
                                                      links, <<nextId, nextId + 1>>), BatchAttrs))
           /\ stack' = Append(stack, Len(spans) + 1)
           /\ nextId' = nextId + IdsUsed(parent)
    /\ pc' = "batch_end"
    /\ UNCHANGED <<event, skip_otel_init, links, processed_count, idx, pending,
                   exported, dropped, flush_log, ret>>
    /\ UNCHANGED <<codec, req, sent>>

\* exit of the scope of sqs.batch
H_BatchEnd ==
    /\ pc = "batch_end"
    /\ EndInLambda(Top(stack), EndSpan(spans[Top(stack)]))
    /\ stack' = Pop(stack)
    /\ pc' = "flush"
    /\ UNCHANGED <<event, skip_otel_init, nextId, links, processed_count, idx,
                   exported, dropped, flush_log, ret>>
    /\ UNCHANGED <<codec, req, sent>>

\* trace.get_tracer_provider().force_flush(timeout_millis=4000) after the
\* batch span, still inside the scope of lambda.invoke
H_Flush ==
    /\ pc = "flush"
    /\ \E outcome \in FlushOutcomes : ForceFlush(outcome)
    /\ pc' = "return"
    /\ UNCHANGED <<event, skip_otel_init, spans, stack, nextId, links,
                   processed_count, idx, ret>>
    /\ UNCHANGED <<codec, req, sent>>

\* return {"ok": True, "source": "sqs", "processed": ..., "batch_size": ...}
H_Return ==
    /\ pc = "return"
    /\ ret' = [kind |-> "value", ok |-> ok_returned(flush_log), source |-> "sqs",
               processed |-> processed_count, batch_size |-> Len(RecordsOf(event))]
    /\ pc' = "invoke_exit"
    /\ UNCHANGED <<event, skip_otel_init, spans, stack, nextId, links,
                   processed_count, idx, pending, exported, dropped, flush_log>>
    /\ UNCHANGED <<codec, req, sent>>

\* the return leaves the scope of lambda.invoke: the span is ended and the
\* handler has returned
H_InvokeExit ==
    /\ pc = "invoke_exit"
    /\ EndInLambda(Top(stack), EndSpan(spans[Top(stack)]))
    /\ stack' = Pop(stack)
    /\ pc' = "done"
    /\ UNCHANGED <<event, skip_otel_init, nextId, links, processed_count, idx,
                   exported, dropped, flush_log, ret>>
    /\ UNCHANGED <<codec, req, sent>>

\* the worker thread of the BatchSpanProcessor sends what is queued
Worker_Drain ==
    /\ pending # <<>>
    /\ \E outcome \in {"ok", "transport_failure"} :
          /\ exported' = IF outcome = "ok" THEN exported \cup Range(pending) ELSE exported
          /\ dropped' = IF outcome = "ok" THEN dropped ELSE dropped \cup Range(pending)
    /\ pending' = <<>>
    /\ UNCHANGED <<event, skip_otel_init, pc, spans, stack, nextId, links,
                   processed_count, idx, flush_log, ret>>
    /\ UNCHANGED <<codec, req, sent>>

(***************************************************************************)
(* Properties of the Lambda handler                                        *)
(***************************************************************************)
NumRecords == Len(RecordsOf(event))

\* indices of the sqs.process spans, and the one opened for record k
ProcessSpans == {i \in DOMAIN spans : spans[i].name = "sqs.process"}

HasProcessSpan(k) == Cardinality(ProcessSpans) >= k

ProcessSpanOf(k) ==
    spans[CHOOSE i \in ProcessSpans :
              Cardinality({j \in ProcessSpans : j < i}) = k - 1]

InvokeSpans == {i \in DOMAIN spans : spans[i].name = "lambda.invoke"}

BatchSpans == {i \in DOMAIN spans : spans[i].name = "sqs.batch"}

OriginOf(k) == RecordsOf(event)[k].origin

\* C1: for every record whose message attributes carry a valid traceparent,
\* the record's sqs.process span has the trace id encoded in the traceparent,
\* has the span id encoded in it as parent, and has another span id of its
\* own, although lambda.invoke is the current span when it is started.
C1_TraceContinuity ==
    \A k \in 1..NumRecords :
        (HasProcessSpan(k) /\ is_valid(OriginOf(k))) =>
            /\ ProcessSpanOf(k).context.trace_id = OriginOf(k).trace_id
            /\ ProcessSpanOf(k).parent.trace_id = OriginOf(k).trace_id
            /\ ProcessSpanOf(k).parent.span_id = OriginOf(k).span_id
            /\ ProcessSpanOf(k).context.span_id # OriginOf(k).span_id
            /\ \A i \in InvokeSpans :
                   /\ ProcessSpanOf(k).parent # spans[i].context
                   /\ ProcessSpanOf(k).context.trace_id # spans[i].context.trace_id

\* a record with a valid traceparent has its sqs.process span open, on top
\* of lambda.invoke
C1_Witness ==
    /\ pc = "record"
    /\ is_valid(OriginOf(idx))
    /\ Len(stack) = 2
    /\ spans[stack[1]].name = "lambda.invoke"
    /\ spans[stack[2]].name = "sqs.process"
    /\ spans[stack[2]].parent.span_id = OriginOf(idx).span_id

AllOriginsValid == \A k \in 1..NumRecords : is_valid(OriginOf(k))

OriginTraceIds == {OriginOf(k).trace_id : k \in 1..NumRecords}

\* C2: fan-in isolation.  For a batch of N records whose carriers encode M
\* distinct trace ids, the sqs.process spans are CONSUMER spans that carry
\* exactly those M trace ids (each span the one of its record), and the
\* sqs.batch span has a trace id that is none of them and exactly N links.
C2_FanInIsolation ==
    (AllOriginsValid /\ BatchSpans # {}) =>
        /\ Cardinality(ProcessSpans) = NumRecords
        /\ \A k \in 1..NumRecords :
               /\ ProcessSpanOf(k).kind = "CONSUMER"
               /\ ProcessSpanOf(k).context.trace_id = OriginOf(k).trace_id
        /\ Cardinality({spans[i].context.trace_id : i \in ProcessSpans})
               = Cardinality(OriginTraceIds)
        /\ \A b \in BatchSpans :
               /\ spans[b].context.trace_id \notin OriginTraceIds
               /\ spans[b].context.trace_id
                      \notin {spans[i].context.trace_id : i \in ProcessSpans}
               /\ Len(spans[b].links) = NumRecords

\* a batch of two records of one trace (M = 1 < N = 2) has its batch span
C2_Witness ==
    /\ NumRecords = 2
    /\ AllOriginsValid
    /\ Cardinality(OriginTraceIds) = 1
    /\ OriginOf(1).span_id # OriginOf(2).span_id
    /\ BatchSpans # {}
    /\ pc = "done"

\* C3: the sqs.batch span has no parent span: it is not a child of
\* lambda.invoke nor of a per-record span.
C3_BatchHasNoParent ==
    \A b \in BatchSpans : ~is_valid(spans[b].parent)

\* C4: a record with no traceparent, or a malformed one, still gets its
\* sqs.process span and is counted as processed; that span is the root of a
\* new trace, whose trace id is neither the one of lambda.invoke nor the one
\* of another record of the batch.
C4_NoParentIsOwnRoot ==
    /\ pc \in {"loop", "batch", "batch_end", "flush", "return", "invoke_exit"} =>
           /\ processed_count = idx - 1
           /\ Cardinality(ProcessSpans) = idx - 1
    /\ (pc = "done" /\ ret.kind = "value" /\ ret.source = "sqs") =>
           /\ ret.processed = NumRecords
           /\ Cardinality(ProcessSpans) = NumRecords
    /\ \A k \in 1..NumRecords :
           (HasProcessSpan(k) /\ ~is_valid(OriginOf(k))) =>
               /\ ~is_valid(ProcessSpanOf(k).parent)
               /\ ProcessSpanOf(k).recording
               /\ \A i \in InvokeSpans :
                      ProcessSpanOf(k).context.trace_id # spans[i].context.trace_id
               /\ \A j \in 1..NumRecords :
                      (j # k /\ HasProcessSpan(j)) =>
                          /\ ProcessSpanOf(j).context.trace_id
                                 # ProcessSpanOf(k).context.trace_id
                          /\ OriginOf(j).trace_id # ProcessSpanOf(k).context.trace_id

\* a batch of a record without traceparent and a record with one is done
C4_Witness ==
    /\ pc = "done"
    /\ NumRecords = 2
    /\ ~is_valid(OriginOf(1))
    /\ is_valid(OriginOf(2))
    /\ ret.processed = 2
    /\ Cardinality(ProcessSpans) = 2

\* C8: carrier construction and extraction raise nothing and never fail the
\* handler, whatever the attribute mapping of a record is, and for attributes
\* without a usable traceparent (absent, empty, without the key, malformed,
\* or holding no string value) the result is "no parent": the extracted
\* context is invalid, the span has no parent and no link is added.
C8_MalformedInputSafety ==
    /\ ret.kind # "raised"
    /\ \A k \in 1..NumRecords :
           LET c == carrier_from_sqs_attributes(RecordsOf(event)[k].messageAttributes)
           IN  /\ ~c.raised
               /\ ~is_valid(OriginOf(k)) => ~is_valid(extract(c.carrier))
               /\ (HasProcessSpan(k) /\ ~is_valid(OriginOf(k))) =>
                      ~is_valid(ProcessSpanOf(k).parent)
    /\ Len(links) <= Cardinality({k \in 1..NumRecords : is_valid(OriginOf(k))})

\* a record whose traceparent entry has no string value has been handled
C8_Witness ==
    /\ pc = "done"
    /\ ret.kind = "value"
    /\ NumRecords = 1
    /\ RecordsOf(event)[1].messageAttributes = Attrs(<< <<traceparent, BinaryAttr>> >>)
    /\ links = <<>>
    /\ Cardinality(ProcessSpans) = 1
    /\ \A i \in ProcessSpans : ~is_valid(spans[i].parent)

\* C9: when the handler has returned, every span the invocation created was
\* ended before the last force_flush, and nothing is left in the queue of
\* the exporter.
C9_FlushBeforeExit ==
    (pc = "done" /\ ret.kind = "value") =>
        /\ flush_log # <<>>
        /\ \A i \in DOMAIN spans :
               spans[i].recording => i \in flush_log[Len(flush_log)].ended_then

(***************************************************************************)
(* One message from the producer to the consumer: inject, message          *)
(* attributes, delivery, carrier, extract                                  *)
(***************************************************************************)
\* ids of the contexts that are sent through: 1..MaxCodecId, spread over
\* several hex digits
MaxCodecId == 3

CodecIds == {k * 74565 : k \in 1..MaxCodecId}

tracestate == <<"t","r","a","c","e","s","t","a","t","e">>

baggage == <<"b","a","g","g","a","g","e">>

\* msg_attrs = {k: {"DataType": "String", "StringValue": v} for k, v in
\* carrier.items() if k in ("traceparent", "tracestate", "baggage") and
\* isinstance(v, str)}
msg_attrs(carrier) ==
    SelectSeq([i \in 1..Len(carrier) |-> <<carrier[i][1], Entry(PyNone, PyStr(carrier[i][2]))>>],
              LAMBDA kv : kv[1] \in {traceparent, tracestate, baggage})

\* what the transport may do to the attributes on the way: hand them on as
\* sent, hand the value on under the field stringValue (the Lambda event
\* format), and change the letter case of the key
Traceparent_mixed == <<"T","r","a","c","e","p","a","r","e","n","t">>

KeyVariants == {traceparent, TRACEPARENT, Traceparent_mixed}

FieldVariants == {"StringValue", "stringValue"}

Rekey(key, newKey) == IF key = traceparent THEN newKey ELSE key

Refield(entry, field) ==
    LET v == PyOr(entry.stringValue, entry.StringValue)
    IN  IF field = "stringValue" THEN Entry(v, PyNone) ELSE Entry(PyNone, v)

Deliver(attrs, newKey, field) ==
    [i \in 1..Len(attrs) |-> <<Rekey(attrs[i][1], newKey), Refield(attrs[i][2], field)>>]

\* texts a foreign producer may have put under traceparent
ForeignTexts ==
    MalformedTexts
    \cup {TP(V00, 1, 2, 1), <<" ">> \o TP(V00, 2, 1, 0) \o <<" ">>, <<>>}

CodecSources ==
    {[kind |-> "producer",
      ctx |-> [trace_id |-> t, span_id |-> s, trace_flags |-> f, is_remote |-> FALSE],
      text |-> <<>>] : t \in CodecIds, s \in CodecIds, f \in {0, 1}}
    \cup {[kind |-> "foreign", ctx |-> INVALID_SPAN_CONTEXT, text |-> x] :
             x \in ForeignTexts}

CodecIdle ==
    [pc |-> "idle", src |-> [kind |-> "none", ctx |-> INVALID_SPAN_CONTEXT, text |-> <<>>],
     carrier |-> <<>>, msg |-> <<>>, key |-> traceparent, attrs |-> <<>>,
     rebuilt |-> <<>>, out |-> INVALID_SPAN_CONTEXT]

CodecInit ==
    \E src \in CodecSources :
        codec = [CodecIdle EXCEPT !.pc = IF src.kind = "producer" THEN "inject" ELSE "deliver",
                                  !.src = src,
                                  !.msg = IF src.kind = "producer" THEN <<>>
                                          ELSE << <<traceparent, Entry(PyNone, PyStr(src.text))>> >>]

\* propagate.inject(carrier) in the producer
C_Inject ==
    /\ codec.pc = "inject"
    /\ codec' = [codec EXCEPT !.pc = "map", !.carrier = inject(codec.src.ctx)]
    /\ UNCHANGED <<lambda_vars, api_vars>>

\* the carrier is mapped to SQS message attributes
C_MapAttrs ==
    /\ codec.pc = "map"
    /\ codec' = [codec EXCEPT !.pc = "deliver", !.msg = msg_attrs(codec.carrier)]
    /\ UNCHANGED <<lambda_vars, api_vars>>

\* the message reaches the consumer
C_Deliver ==
    /\ codec.pc = "deliver"
    /\ \E k \in KeyVariants, f \in FieldVariants :
          codec' = [codec EXCEPT !.pc = "rebuild", !.key = k,
                                 !.attrs = Deliver(codec.msg, k, f)]
    /\ UNCHANGED <<lambda_vars, api_vars>>

\* carrier = _carrier_from_sqs_attributes(rec.get("messageAttributes"))
C_Rebuild ==
    /\ codec.pc = "rebuild"
    /\ codec' = [codec EXCEPT !.pc = "extract",
                              !.rebuilt = carrier_from_sqs_attributes(Attrs(codec.attrs)).carrier]
    /\ UNCHANGED <<lambda_vars, api_vars>>

\* ctx = propagate.extract(carrier)
C_Extract ==
    /\ codec.pc = "extract"
    /\ codec' = [codec EXCEPT !.pc = "done", !.out = extract(codec.rebuilt)]
    /\ UNCHANGED <<lambda_vars, api_vars>>

CodecNext == C_Inject \/ C_MapAttrs \/ C_Deliver \/ C_Rebuild \/ C_Extract

(***************************************************************************)
(* The API (onboarding-api/app.py and app.clean.py)                        *)
(*                                                                         *)
(* Every request runs on a thread of its own; the current span is kept in  *)
(* the context of that thread (req[r].stack).  The id generator is random: *)
(* request r draws the ids FreshId(r, 1), FreshId(r, 2), ..., which no     *)
(* other request draws.                                                    *)
(***************************************************************************)
\* requests in flight at the same time
MaxRequests == 2

Requests == 1..MaxRequests

FreshId(r, n) == n * MaxRequests + r

\* calculate_success_score: the weights and the threshold, in tenths
WeightLambda == 4
WeightQueue == 4
WeightNotification == 2
SuccessThreshold == 8

\* the weights of the queue and of the notification are exchanged
calculate_success_score_swapped(lambda_success, queue_success, notification_sent) ==
    (IF lambda_success THEN WeightLambda ELSE 0)
    + (IF queue_success THEN WeightNotification ELSE 0)
    + (IF notification_sent THEN WeightQueue ELSE 0)

calculate_success_score(lambda_success, queue_success, notification_sent) ==
    (IF lambda_success THEN WeightLambda ELSE 0)
    + (IF queue_success THEN WeightQueue ELSE 0)
    + (IF notification_sent THEN WeightNotification ELSE 0)

NoResponse == [code |-> 0, status |-> ""]

\* an exception: its class and str(e)
Exc(type, msg) == [type |-> type, msg |-> msg]

NoException == Exc("", "")

\* the exception leaves the with block as a wrapper of another class
span_exit_exception_wrapped(e) == Exc("TracingError", e.msg)

\* the exception that leaves the with block of a span which an exception
\* entered: start_as_current_span records it on the span and raises it again
span_exit_exception(e) == e

\* f"{type(exc).__name__}: {exc}", the description the SDK gives the status
\* of a span left by an exception
ExceptionDescription(e) == e.type \o ": " \o e.msg

\* endpoints and the payloads that tell their paths apart
\* bodies of a POST to /onboard: a JSON object with a customer id, one
\* without the key, one whose customer id is the empty string, and a body
\* that is no JSON
OnboardBodies == {"valid", "no_customer_id", "empty_customer_id", "not_json"}

RequestKinds ==
    {[endpoint |-> "onboard", payload |-> p] : p \in OnboardBodies}
    \cup {[endpoint |-> "smoke", payload |-> "valid"]}
    \cup {[endpoint |-> "clean", payload |-> p] : p \in {"valid", "short_id", "not_a_string"}}

NewRequest(kind) ==
    [endpoint |-> kind.endpoint, payload |-> kind.payload, pc |-> "root",
     spans |-> <<>>, stack |-> <<>>, n |-> 0,
     existing |-> FALSE, lambda_success |-> FALSE, queue_success |-> FALSE,
     notification_sent |-> FALSE, carrier |-> <<>>, qret |-> "",
     thrown |-> NoException, caught |-> NoException, notification_report |-> "",
     response |-> NoResponse]

ReqIdle == [r \in Requests |-> [NewRequest([endpoint |-> "none", payload |-> ""])
                                   EXCEPT !.pc = "idle"]]

ApiInit ==
    /\ req \in [Requests -> {NewRequest(k) : k \in RequestKinds}]
    /\ sent = <<>>

\* one stack for the whole process: the current span is looked up in the
\* context of the first request
thread_context_global(rq, r) == IF r = 1 THEN rq ELSE req[1]

\* the context in which the tracer looks up the current span: the one of the
\* thread that runs the request (rq is the state of request r as the thread
\* has it)
thread_context(rq, r) == rq

\* with tracer.start_as_current_span(name, context=context, kind=kind): the
\* new span is a child of the explicit context, or of the current span of
\* this request when none is given, and becomes current
OpenSpanIn(rq, r, name, kind, context) ==
    LET parent == ParentOf(context, thread_context(rq, r).spans,
                           thread_context(rq, r).stack)
    IN  [rq EXCEPT
            !.spans = Append(@, NewSpan(name, kind, parent, <<>>,
                                        <<FreshId(r, rq.n + 1), FreshId(r, rq.n + 2)>>)),
            !.stack = Append(@, Len(rq.spans) + 1),
            !.n = @ + IdsUsed(parent)]

\* with tracer.start_as_current_span(name, kind=kind)
OpenSpan(rq, r, name, kind) == OpenSpanIn(rq, r, name, kind, NoContext)

\* the scope of the current span is left normally
CloseSpan(rq) ==
    [rq EXCEPT !.spans[Top(rq.stack)] = EndSpan(@), !.stack = Pop(@)]

\* the scope of the current span is left by an exception
CloseSpanOnException(rq, msg) ==
    [rq EXCEPT !.spans[Top(rq.stack)] = EndSpanOnException(@, msg), !.stack = Pop(@)]

\* set_attribute / set_status on the current span
TopAttrs(rq, kvs) == [rq EXCEPT !.spans[Top(rq.stack)] = SetAttrs(@, kvs)]

TopStatus(rq, st) == [rq EXCEPT !.spans[Top(rq.stack)] = SetStatus(@, st)]

\* a step that opens its span, sets attributes and a status, and leaves it
StepSpan(rq, r, name, kvs, st) ==
    CloseSpan(IF st = UNSET THEN TopAttrs(OpenSpan(rq, r, name, "INTERNAL"), kvs)
              ELSE TopStatus(TopAttrs(OpenSpan(rq, r, name, "INTERNAL"), kvs), st))

Respond(rq, code, status) == [rq EXCEPT !.response = [code |-> code, status |-> status]]

At(rq, pcv) == [rq EXCEPT !.pc = pcv]

Set(r, rq) == req' = [req EXCEPT ![r] = rq]

\* onboard: with tracer.start_as_current_span("customer_onboarding_workflow")
A_Root(r) ==
    /\ req[r].pc = "root" /\ req[r].endpoint = "onboard"
    /\ Set(r, At(OpenSpan(req[r], r, "customer_onboarding_workflow", "INTERNAL"),
                 "validate"))
    /\ UNCHANGED <<lambda_vars, codec, sent>>

\* onboard: the except clauses; the root span gets status ERROR and the
\* response is 400 (ValidationError) or 500 (any other exception)
OnboardFailed(rq, exc, msg) ==
    At(Respond(TopAttrs(TopStatus(rq, StatusError(msg)),
                        << <<"error", "True">>, <<"error.type", exc>>,
                           <<"error.message", msg>> >>),
               IF exc = "ValidationError" THEN 400 ELSE 500,
               IF exc = "ValidationError" THEN "validation_error" ELSE "internal_error"),
       "root_exit")

\* payload = request.get_json(silent=True) or {}: a body that is no JSON
\* gives None, which is replaced by the empty object
request_payload(body) ==
    CASE body = "not_json" -> [has_customer_id |-> FALSE, customer_id |-> ""]
      [] body = "no_customer_id" -> [has_customer_id |-> FALSE, customer_id |-> ""]
      [] body = "empty_customer_id" -> [has_customer_id |-> TRUE, customer_id |-> ""]
      [] OTHER -> [has_customer_id |-> TRUE, customer_id |-> "c1"]

\* only the presence of the key is tested
customer_id_required_key_only(payload) == ~payload.has_customer_id

\* if not payload.get("customer_id"): the key is absent or its value is empty
customer_id_required(payload) ==
    ~payload.has_customer_id \/ payload.customer_id = ""

\* validate_customer_request, and the attributes onboard sets after it
A_Validate(r) ==
    /\ req[r].pc = "validate"
    /\ LET opened == TopAttrs(OpenSpan(req[r], r, "validate_customer_request", "INTERNAL"),
                              << <<"business.operation", "validate_customer_request">> >>)
           e == Exc("ValidationError", "Customer ID is required")
           out == span_exit_exception(e)
       IN  IF customer_id_required(request_payload(req[r].payload))
           THEN Set(r, [OnboardFailed(
                           CloseSpanOnException(opened, ExceptionDescription(e)),
                           out.type, out.msg)
                        EXCEPT !.thrown = e, !.caught = out])
           ELSE Set(r, At(TopAttrs(CloseSpan(opened),
                                   << <<"customer.id", "c1">>, <<"http.method", "POST">>,
                                      <<"http.route", "/onboard">> >>),
                          "perform"))
    /\ UNCHANGED <<lambda_vars, codec, sent>>

\* perform_customer_validation
A_PerformValidation(r) ==
    /\ req[r].pc = "perform"
    /\ Set(r, At(StepSpan(req[r], r, "perform_customer_validation",
                          << <<"business.operation", "perform_customer_validation">> >>,
                          UNSET),
                 "check"))
    /\ UNCHANGED <<lambda_vars, codec, sent>>

\* check_existing_customer: the customer exists, does not, or the check
\* fails and None is returned
A_CheckExisting(r) ==
    /\ req[r].pc = "check"
    /\ \E outcome \in {"exists", "new", "error"} :
          Set(r, [At(StepSpan(req[r], r, "check_existing_customer",
                              IF outcome = "error" THEN << <<"error", "True">> >>
                              ELSE << <<"customer.exists",
                                        IF outcome = "exists" THEN "True" ELSE "False">> >>,
                              IF outcome = "error" THEN StatusError("check failed") ELSE UNSET),
                     "create")
                  EXCEPT !.existing = (outcome = "exists")])
    /\ UNCHANGED <<lambda_vars, codec, sent>>

\* create_customer_record: returns the record, or sets ERROR on its span and
\* raises again
A_CreateRecord(r) ==
    /\ req[r].pc = "create"
    /\ \E outcome \in {"ok", "raise"} :
          LET opened == OpenSpan(req[r], r, "create_customer_record", "INTERNAL")
              e == Exc("Exception", "db failed")
              out == span_exit_exception(e)
          IN  IF outcome = "ok"
              THEN Set(r, At(CloseSpan(TopAttrs(opened,
                                 << <<"database.operation",
                                      IF req[r].existing THEN "updated" ELSE "created">> >>)),
                             "trigger"))
              ELSE Set(r, [OnboardFailed(
                              CloseSpanOnException(
                                  TopAttrs(TopStatus(opened, StatusError(e.msg)),
                                           << <<"error", "True">> >>),
                                  ExceptionDescription(e)),
                              out.type, out.msg)
                           EXCEPT !.thrown = e, !.caught = out])
    /\ UNCHANGED <<lambda_vars, codec, sent>>

\* trigger_async_processing
A_Trigger(r) ==
    /\ req[r].pc = "trigger"
    /\ \E success \in BOOLEAN :
          Set(r, [At(StepSpan(req[r], r, "trigger_async_processing",
                              << <<"aws.lambda.invocation_result",
                                   IF success THEN "success" ELSE "failed">> >>,
                              IF success THEN UNSET
                              ELSE StatusError("Lambda invocation failed")),
                     "q_enter")
                  EXCEPT !.lambda_success = success, !.qret = "notify"])
    /\ UNCHANGED <<lambda_vars, codec, sent>>

\* the carrier is filled before the sqs.send span is entered: the current
\* span is still queue_for_processing
inject_outside_producer(sp, stk) == inject(CurrentSpanContext(sp, Pop(stk)))

\* carrier = {}; propagate.inject(carrier), inside the scope of sqs.send
inject_current(sp, stk) == inject(CurrentSpanContext(sp, stk))

\* the attributes of the outbound message: the W3C keys of the carrier, and
\* customer.id
message_attributes(carrier) ==
    msg_attrs(carrier) \o << <<customer_id_key, Entry(PyNone, PyStr(<<"c","1">>))>> >>

\* queue_for_processing: with tracer.start_as_current_span("queue_for_processing")
Q_Enter(r) ==
    /\ req[r].pc = "q_enter"
    /\ Set(r, At(TopAttrs(OpenSpan(req[r], r, "queue_for_processing", "INTERNAL"),
                          << <<"business.operation", "queue_for_processing">> >>),
                 "q_producer"))
    /\ UNCHANGED <<lambda_vars, codec, sent>>

\* sqs.send is started in the context of the span handed to
\* queue_for_processing as its argument `span`, the root of the request
sqs_send_context_of_argument(rq) == ExplicitContext(rq.spans[1].context)

\* the context argument of start_as_current_span("sqs.send", ...): none
sqs_send_context(rq) == NoContext

\* with tracer.start_as_current_span("sqs.send", kind=SpanKind.PRODUCER)
Q_Producer(r) ==
    /\ req[r].pc = "q_producer"
    /\ Set(r, At(TopAttrs(OpenSpanIn(req[r], r, "sqs.send", "PRODUCER",
                                     sqs_send_context(req[r])),
                          << <<"messaging.system", "aws.sqs">>,
                             <<"messaging.operation", "send">> >>),
                 "q_inject"))
    /\ UNCHANGED <<lambda_vars, codec, sent>>

\* propagate.inject(carrier)
Q_Inject(r) ==
    /\ req[r].pc = "q_inject"
    /\ Set(r, [At(req[r], "q_send")
                  EXCEPT !.carrier = inject_current(req[r].spans, req[r].stack)])
    /\ UNCHANGED <<lambda_vars, codec, sent>>

\* sqs.send_message(...): it returns, or raises; an exception leaves the
\* scope of sqs.send and is caught by the except clause of
\* queue_for_processing, which returns False
Q_Send(r) ==
    /\ req[r].pc = "q_send"
    /\ \E outcome \in {"ok", "raise"} :
          LET queue_span == req[r].stack[Len(req[r].stack) - 1]
          IN  IF outcome = "ok"
              THEN /\ sent' = Append(sent, [attrs |-> message_attributes(req[r].carrier),
                                            request_id |-> r, customer_id |-> "c1"])
                   /\ Set(r, [At(CloseSpan(TopAttrs(req[r],
                                     << <<"messaging.message_id", "mid">> >>)), "q_exit")
                                 EXCEPT !.spans[queue_span] =
                                            SetAttrs(@, << <<"aws.sqs.message_id", "mid">>,
                                                           <<"aws.sqs.message_sent", "True">>,
                                                           <<"trace.propagated", "True">> >>),
                                        !.queue_success = TRUE])
              ELSE /\ sent' = sent
                   /\ Set(r, [At(CloseSpanOnException(req[r], "ClientError: send failed"),
                                 "q_exit")
                                 EXCEPT !.spans[queue_span] =
                                            SetAttr(SetStatus(@, StatusError("send failed")),
                                                    "aws.sqs.message_sent", "False"),
                                        !.queue_success = FALSE])
    /\ UNCHANGED <<lambda_vars, codec>>

\* queue_for_processing returns: the scope of its span is left
Q_Exit(r) ==
    /\ req[r].pc = "q_exit"
    /\ Set(r, At(CloseSpan(req[r]), req[r].qret))
    /\ UNCHANGED <<lambda_vars, codec, sent>>

\* the notification is sent only when the Lambda invocation before it
\* succeeded
notify_new_customer_if_triggered(rq) == ~rq.existing /\ rq.lambda_success

\* if not existing_customer: the results of the earlier steps play no part
notify_new_customer(rq) == ~rq.existing

\* send_welcome_notification, only when the customer does not exist yet
A_Notify(r) ==
    /\ req[r].pc = "notify"
    /\ IF ~notify_new_customer(req[r])
       THEN Set(r, [At(req[r], "respond") EXCEPT !.notification_sent = FALSE])
       ELSE \E success \in BOOLEAN :
               Set(r, [At(StepSpan(req[r], r, "send_welcome_notification",
                                   << <<"aws.sns.message_sent",
                                        IF success THEN "True" ELSE "False">> >>,
                                   IF success THEN UNSET
                                   ELSE StatusError("SNS publish failed")),
                          "respond")
                       EXCEPT !.notification_sent = success])
    /\ UNCHANGED <<lambda_vars, codec, sent>>

\* result["operations"]["notification"]
notification_report(rq) ==
    IF rq.notification_sent THEN "sent"
    ELSE IF rq.existing THEN "skipped" ELSE "failed"

\* onboard: the success score and the response of a completed workflow
A_Respond(r) ==
    /\ req[r].pc = "respond"
    /\ LET score == calculate_success_score(req[r].lambda_success, req[r].queue_success,
                                             req[r].notification_sent)
           code == IF score >= SuccessThreshold THEN 200 ELSE 206
       IN  Set(r, [At(Respond(TopAttrs(req[r], << <<"http.status_code", ToString(code)>> >>),
                              code,
                              IF score >= SuccessThreshold THEN "success"
                                                           ELSE "partial_success"),
                      "root_exit")
                   EXCEPT !.notification_report = notification_report(req[r])])
    /\ UNCHANGED <<lambda_vars, codec, sent>>

\* the return of an entry point leaves the scope of its root span
A_RootExit(r) ==
    /\ req[r].pc = "root_exit"
    /\ Set(r, At(CloseSpan(req[r]), "done"))
    /\ UNCHANGED <<lambda_vars, codec, sent>>

\* telemetry_smoke: with tracer.start_as_current_span("smoke_root")
S_Root(r) ==
    /\ req[r].pc = "root" /\ req[r].endpoint = "smoke"
    /\ Set(r, [At(TopAttrs(OpenSpan(req[r], r, "smoke_root", "INTERNAL"),
                           << <<"http.route", "/telemetry/smoke">>,
                              <<"http.method", "POST">> >>),
                  "q_enter")
               EXCEPT !.qret = "smoke_end"])
    /\ UNCHANGED <<lambda_vars, codec, sent>>

\* the smoke test answers 200 whatever queue_for_processing returned
smoke_status_code_always_ok(ok) == 200

\* status_code = 200 if ok else 500
smoke_status_code(ok) == IF ok THEN 200 ELSE 500

\* telemetry_smoke: the answer after queue_for_processing has returned
S_End(r) ==
    /\ req[r].pc = "smoke_end"
    /\ Set(r, At(Respond(req[r],
                         smoke_status_code(req[r].queue_success),
                         IF req[r].queue_success THEN "queued" ELSE "failed"),
                 "root_exit"))
    /\ UNCHANGED <<lambda_vars, codec, sent>>

\* app.clean.py onboard: with tracer.start_as_current_span("customer_onboarding_api")
K_Root(r) ==
    /\ req[r].pc = "root" /\ req[r].endpoint = "clean"
    /\ Set(r, At(OpenSpan(req[r], r, "customer_onboarding_api", "INTERNAL"), "k_validate"))
    /\ UNCHANGED <<lambda_vars, codec, sent>>

\* app.clean.py onboard: attributes and input validation.  A customer id
\* shorter than 3 is answered 400; one that is no string makes len() raise,
\* which the except clause answers 500 with status ERROR on the root span.
K_Validate(r) ==
    /\ req[r].pc = "k_validate"
    /\ LET tagged == TopAttrs(req[r], << <<"http.method", "POST">>,
                                         <<"http.route", "/onboard">> >>)
       IN  Set(r, CASE req[r].payload = "short_id" ->
                         At(Respond(TopAttrs(tagged,
                                        << <<"validation.error", "invalid_customer_id">> >>),
                                    400, "Invalid customer ID"),
                            "root_exit")
                    [] req[r].payload = "not_a_string" ->
                         At(Respond(TopAttrs(TopStatus(tagged, StatusError("TypeError")),
                                             << <<"error", "True">>,
                                                <<"error.type", "TypeError">> >>),
                                    500, "Internal server error"),
                            "root_exit")
                    [] OTHER -> At(tagged, "k_initial"))
    /\ UNCHANGED <<lambda_vars, codec, sent>>

\* app.clean.py onboard: initial_processing
K_Initial(r) ==
    /\ req[r].pc = "k_initial"
    /\ Set(r, At(StepSpan(req[r], r, "initial_processing",
                          << <<"processing.status", "completed">> >>, UNSET),
                 "k_downstream"))
    /\ UNCHANGED <<lambda_vars, codec, sent>>

\* app.clean.py onboard: downstream_processing; a failed invoke is caught
K_Downstream(r) ==
    /\ req[r].pc = "k_downstream"
    /\ \E ok \in BOOLEAN :
          Set(r, At(StepSpan(req[r], r, "downstream_processing",
                             IF ok THEN << <<"lambda.invocation.success", "True">> >>
                                   ELSE << <<"error", "True">> >>,
                             UNSET),
                    "k_workflow"))
    /\ UNCHANGED <<lambda_vars, codec, sent>>

WorkflowSteps == <<"workflow_validate", "workflow_enrich", "workflow_queue">>

\* spans of the workflow loop when `completed` steps succeed: one per
\* completed step, and one for the step that failed and broke the loop
RECURSIVE RunWorkflow(_, _, _, _)
RunWorkflow(rq, r, i, completed) ==
    IF i > Len(WorkflowSteps) \/ i > completed + 1 THEN rq
    ELSE RunWorkflow(StepSpan(rq, r, WorkflowSteps[i],
                              IF i <= completed
                              THEN << <<"step.status", "completed">> >>
                              ELSE << <<"step.error", "timeout">> >>,
                              UNSET),
                     r, i + 1, completed)

\* app.clean.py onboard: the workflow loop and the response, jsonify(result)
K_Workflow(r) ==
    /\ req[r].pc = "k_workflow"
    /\ \E completed \in 0..Len(WorkflowSteps) :
          Set(r, At(Respond(TopAttrs(RunWorkflow(req[r], r, 1, completed),
                                     << <<"http.status_code",
                                          IF completed = Len(WorkflowSteps)
                                          THEN "200" ELSE "206">> >>),
                            200,
                            IF completed = Len(WorkflowSteps) THEN "accepted" ELSE "partial"),
                    "root_exit"))
    /\ UNCHANGED <<lambda_vars, codec, sent>>

ApiNext ==
    \E r \in Requests :
        \/ A_Root(r)
        \/ A_Validate(r)
        \/ A_PerformValidation(r)
        \/ A_CheckExisting(r)
        \/ A_CreateRecord(r)
        \/ A_Trigger(r)
        \/ Q_Enter(r)
        \/ Q_Producer(r)
        \/ Q_Inject(r)
        \/ Q_Send(r)
        \/ Q_Exit(r)
        \/ A_Notify(r)
        \/ A_Respond(r)
        \/ A_RootExit(r)
        \/ S_Root(r)
        \/ S_End(r)
        \/ K_Root(r)
        \/ K_Validate(r)
        \/ K_Initial(r)
        \/ K_Downstream(r)
        \/ K_Workflow(r)

(***************************************************************************)
(* Specifications                                                          *)
(***************************************************************************)
LambdaIdle ==
    /\ event = [is_dict |-> FALSE, has_Records |-> FALSE, Records |-> <<>>]
    /\ skip_otel_init = FALSE
    /\ pc = "idle"
    /\ spans = <<>>
    /\ stack = <<>>
    /\ nextId = MaxRemoteId + 1
    /\ links = <<>>
    /\ processed_count = 0
    /\ idx = 1
    /\ pending = <<>>
    /\ exported = {}
    /\ dropped = {}
    /\ flush_log = <<>>
    /\ ret = NoReturn

\* one invocation of the Lambda handler
Init == LambdaInit /\ codec = CodecIdle /\ req = ReqIdle /\ sent = <<>>

Next ==
    \/ H_Start
    \/ H_DirectStart
    \/ H_DirectFlush
    \/ H_DirectReturn
    \/ H_RecordStart
    \/ H_RecordBody
    \/ H_BatchStart
    \/ H_BatchEnd
    \/ H_Flush
    \/ H_Return
    \/ H_InvokeExit
    \/ Worker_Drain

Spec == Init /\ [][Next]_vars

\* one message from producer to consumer
InitCodec == CodecInit /\ LambdaIdle /\ req = ReqIdle /\ sent = <<>>

SpecCodec == InitCodec /\ [][CodecNext]_vars

\* concurrent requests to the API
InitApi == ApiInit /\ LambdaIdle /\ codec = CodecIdle

SpecApi == InitApi /\ [][ApiNext]_vars

(***************************************************************************)
(* Properties of the message path                                          *)
(***************************************************************************)
\* C6: round trip across the queue.  For every valid context the producer
\* injects, mapping the carrier to message attributes, rebuilding the carrier
\* with _carrier_from_sqs_attributes and extracting it gives a context with
\* the same trace_id, span_id and trace_flags.
C6_RoundTrip ==
    (codec.pc = "done" /\ codec.src.kind = "producer") =>
        /\ codec.out.trace_id = codec.src.ctx.trace_id
        /\ codec.out.span_id = codec.src.ctx.span_id
        /\ codec.out.trace_flags = codec.src.ctx.trace_flags
        /\ is_valid(codec.out)

\* a context with many-digit ids and flags 00 has gone through, the
\* attributes handed on as queue_for_processing wrote them
C6_Witness ==
    /\ codec.pc = "done"
    /\ codec.src.kind = "producer"
    /\ codec.src.ctx.trace_id = MaxCodecId * 74565
    /\ codec.src.ctx.span_id = 74565
    /\ codec.src.ctx.trace_flags = 0
    /\ codec.attrs = msg_attrs(inject(codec.src.ctx))
    /\ codec.out.trace_id = MaxCodecId * 74565

\* the record that differs from the delivered one only in using the key
\* traceparent
WithLowerKey(attrs, key) ==
    [i \in 1..Len(attrs) |->
        <<IF attrs[i][1] = key THEN traceparent ELSE attrs[i][1], attrs[i][2]>>]

\* C7: case-insensitivity.  A record whose attributes use the key
\* TRACEPARENT, or another letter case of it, yields through
\* _carrier_from_sqs_attributes and extract the same context as the record
\* that uses the key traceparent with the same value.
C7_CaseInsensitive ==
    codec.pc = "done" =>
        codec.out = extract(carrier_from_sqs_attributes(
                               Attrs(WithLowerKey(codec.attrs, codec.key))).carrier)

\* a message with the key TRACEPARENT and a well-formed value was extracted
C7_Witness ==
    /\ codec.pc = "done"
    /\ codec.key = TRACEPARENT
    /\ codec.attrs[1][1] = TRACEPARENT
    /\ is_valid(codec.out)

(***************************************************************************)
(* Properties of the API                                                   *)
(***************************************************************************)
SendSpans(rq) == {i \in DOMAIN rq.spans : rq.spans[i].name = "sqs.send"}

\* the text under traceparent in the attributes of a message
TraceparentOf(msg) ==
    LET got == CarrierGet([i \in 1..Len(msg.attrs) |->
                              <<msg.attrs[i][1], msg.attrs[i][2].StringValue.s>>],
                          traceparent)
    IN  IF got.found THEN got.val ELSE <<>>

\* C5: in queue_for_processing the message is sent only after the context
\* was injected inside the sqs.send PRODUCER span: the traceparent of every
\* message sent encodes the trace id of the root span of its request and the
\* span id of the sqs.send span, which is neither the span id of
\* queue_for_processing nor the one of the root; no message of a request is
\* sent while its carrier is still empty.
C5_InjectBeforeSend ==
    /\ \A m \in 1..Len(sent) :
           LET rq == req[sent[m].request_id]
           IN  /\ rq.carrier # <<>>
               /\ Cardinality(SendSpans(rq)) = 1
               /\ \A i \in SendSpans(rq) :
                      /\ rq.spans[i].kind = "PRODUCER"
                      /\ TraceparentOf(sent[m])
                             = TP(V00, rq.spans[1].context.trace_id,
                                  rq.spans[i].context.span_id, 1)
                      /\ \A j \in DOMAIN rq.spans :
                             j # i => rq.spans[j].context.span_id
                                          # rq.spans[i].context.span_id
                      /\ rq.spans[i].context.trace_id = rq.spans[1].context.trace_id
    /\ \A r \in Requests :
           req[r].pc \in {"root", "validate", "perform", "check", "create", "trigger",
                          "q_enter", "q_producer", "q_inject", "q_send"} =>
               \A m \in 1..Len(sent) : sent[m].request_id # r

\* both requests have sent their message, one through onboard and one
\* through telemetry_smoke
C5_Witness ==
    /\ Len(sent) = 2
    /\ sent[1].request_id # sent[2].request_id
    /\ \E r \in Requests : req[r].endpoint = "onboard" /\ req[r].pc = "done"
    /\ \E r \in Requests : req[r].endpoint = "smoke" /\ req[r].pc = "done"

\* C10: every entry point that opens a root span ends it with status OK when
\* the response code is 2xx and with status ERROR and a message otherwise.
C10_RootStatusFromOutcome ==
    \A r \in Requests :
        req[r].pc = "done" =>
            /\ req[r].spans[1].ended
            /\ IF req[r].response.code \in 200..299
               THEN req[r].spans[1].status.code = "OK"
               ELSE /\ req[r].spans[1].status.code = "ERROR"
                    /\ req[r].spans[1].status.msg # ""

\* the span of the step that raised: the last one the request opened
FailedStepSpan(rq) == rq.spans[Len(rq.spans)]

\* C11: when validate_customer_request raises ValidationError or
\* create_customer_record raises, the span of the step is ended with status
\* ERROR and a description that carries the message of the exception, and
\* the exception onboard catches is the one the step raised, class and
\* message unchanged (400 for a ValidationError, 500 otherwise).
C11_ExceptionPassThrough ==
    \A r \in Requests :
        req[r].thrown # NoException =>
            /\ FailedStepSpan(req[r]).name
                   = (IF req[r].thrown.type = "ValidationError"
                      THEN "validate_customer_request" ELSE "create_customer_record")
            /\ FailedStepSpan(req[r]).ended
            /\ FailedStepSpan(req[r]).status.code = "ERROR"
            /\ FailedStepSpan(req[r]).status.msg
                   = req[r].thrown.type \o ": " \o req[r].thrown.msg
            /\ req[r].caught = req[r].thrown
            /\ req[r].response.code
                   = (IF req[r].thrown.type = "ValidationError" THEN 400 ELSE 500)
            /\ req[r].spans[1].status = StatusError(req[r].thrown.msg)

\* one request ended by a ValidationError and one by an exception of
\* create_customer_record
C11_Witness ==
    /\ \E r \in Requests :
          req[r].pc = "done" /\ req[r].caught.type = "ValidationError"
    /\ \E r \in Requests :
          req[r].pc = "done" /\ req[r].caught = Exc("Exception", "db failed")

(***************************************************************************)
(* One call chain at a time: an invocation of the Lambda handler, or one   *)
(* request to the API                                                      *)
(***************************************************************************)
InitChain ==
    /\ codec = CodecIdle
    /\ sent = <<>>
    /\ \/ LambdaInit /\ req = ReqIdle
       \/ LambdaIdle /\ \E k \in RequestKinds : req = [ReqIdle EXCEPT ![1] = NewRequest(k)]

NextChain == Next \/ ApiNext

SpecChain == InitChain /\ [][NextChain]_vars

(***************************************************************************)
(* Properties of the scopes                                                *)
(***************************************************************************)
\* the spans that are open are the ones of the stack, each once (end() does
\* nothing to a span that is not recording: such a span is open only while
\* it is on the stack)
StackHoldsOpenSpans(sp, stk) ==
    /\ \A i \in DOMAIN sp :
           sp[i].recording => (~sp[i].ended <=> (\E k \in DOMAIN stk : stk[k] = i))
    /\ \A k, l \in DOMAIN stk : k < l => stk[k] < stk[l]

\* a step that takes a span off the stack leaves the stack as it was before
\* that span was pushed, and the span ended
ExitRestores(sp, stk, sp2, stk2) ==
    Len(stk2) < Len(stk) =>
        /\ stk2 = SubSeq(stk, 1, Len(stk) - 1)
        /\ sp2[stk[Len(stk)]].ended \/ ~sp2[stk[Len(stk)]].recording
        /\ stk2 # <<>> => ~sp2[stk2[Len(stk2)]].ended

\* a step that opens a scope pushes one span on the stack as it was
EnterPushes(sp, stk, sp2, stk2) ==
    Len(stk2) > Len(stk) =>
        /\ Len(stk2) = Len(stk) + 1
        /\ SubSeq(stk2, 1, Len(stk)) = stk
        /\ stk2[Len(stk2)] = Len(sp2)

ScopesNest ==
    /\ StackHoldsOpenSpans(spans, stack)
    /\ \A r \in Requests : StackHoldsOpenSpans(req[r].spans, req[r].stack)
    \* lambda.invoke is current between the records and when sqs.batch is started
    /\ pc \in {"loop", "batch", "flush", "return"} =>
           stack # <<>> /\ spans[Top(stack)].name = "lambda.invoke" /\ Len(stack) = 1
    /\ pc = "batch_end" =>
           /\ Len(stack) = 2
           /\ spans[stack[1]].name = "lambda.invoke"
           /\ spans[Top(stack)].parent = spans[stack[1]].context
    \* nothing is open or current after the handler has returned
    /\ pc = "done" => stack = <<>> /\ \A i \in DOMAIN spans : spans[i].ended \/ ~spans[i].recording
    /\ \A r \in Requests :
           req[r].pc = "done" =>
               req[r].stack = <<>> /\ \A i \in DOMAIN req[r].spans : req[r].spans[i].ended

ScopeStep ==
    /\ ExitRestores(spans, stack, spans', stack')
    /\ EnterPushes(spans, stack, spans', stack')
    /\ \A r \in Requests :
           /\ ExitRestores(req[r].spans, req[r].stack, req[r].spans', req[r].stack')
           /\ EnterPushes(req[r].spans, req[r].stack, req[r].spans', req[r].stack')

\* C12: scoped push/pop.  When a traced scope exits, normally or through an
\* exception, the span that was current before the scope was entered is
\* current again and the exited span is ended; lambda.invoke is current
\* after the scope of each sqs.process and when sqs.batch is started; no span
\* of a request or of an invocation is open or current after its handler
\* has returned.
C12_ScopedPushPop == []ScopesNest /\ [][ScopeStep]_vars

\* a batch of two records was handled and the handler has returned
C12_Witness ==
    /\ pc = "done"
    /\ ret.kind = "value"
    /\ NumRecords = 2
    /\ Len(spans) = 4
    /\ stack = <<>>

(***************************************************************************)
(* Properties of the records of a batch                                    *)
(***************************************************************************)
\* keys of the attributes that are derived from a record
RecordKeys ==
    {"messaging.message_id", "customer.id", "business.request_id",
     "processing.decode_error", "error.message"}

\* the attributes record k alone determines: its message id, and either the
\* fields of its body or the marks of a body that is no JSON
RecordAttrsOf(k) ==
    {<<"messaging.message_id", ToString(k)>>}
    \cup (IF RecordsOf(event)[k].body.kind = "object"
          THEN {<<"customer.id", RecordsOf(event)[k].body.customer_id>>,
                <<"business.request_id", RecordsOf(event)[k].body.request_id>>}
          ELSE IF RecordsOf(event)[k].body.kind = "invalid_json"
          THEN {<<"processing.decode_error", "True">>,
                <<"error.message", "JSONDecodeError">>}
          ELSE {})

OpenProcessSpans == {i \in ProcessSpans : \E k \in DOMAIN stack : stack[k] = i}

RecordsIsolated ==
    /\ Cardinality(OpenProcessSpans) <= 1
    /\ \A k \in 1..NumRecords :
           HasProcessSpan(k) =>
               {kv \in ProcessSpanOf(k).attributes : kv[1] \in RecordKeys}
                   = (IF ProcessSpanOf(k).recording /\ ProcessSpanOf(k).ended
                      THEN RecordAttrsOf(k) ELSE {})
    /\ \A i \in InvokeSpans \cup BatchSpans :
           \A kv \in spans[i].attributes : kv[1] \notin RecordKeys
    /\ \A i \in InvokeSpans : spans[i].attributes = Range(InvokeAttrs)

\* a step of the loop changes no span but the one of the record it is at
RecordStepFrame ==
    pc \in {"loop", "record"} =>
        \A j \in DOMAIN spans :
            (pc = "record" /\ j = Top(stack)) \/ spans'[j] = spans[j]

\* C13: per-message isolation.  At most one sqs.process span is open at any
\* time; the attributes derived from record i are set on the sqs.process span
\* of record i and on no other span; handling record i leaves the spans of
\* the other records and the attributes of lambda.invoke as they were.
C13_PerMessageIsolation == []RecordsIsolated /\ [][RecordStepFrame]_vars

\* a batch of a record with a JSON object as body and a record whose body is
\* no JSON has been handled
C13_Witness ==
    /\ pc = "done"
    /\ ret.kind = "value"
    /\ NumRecords = 2
    /\ RecordsOf(event)[1].body.kind = "object"
    /\ RecordsOf(event)[2].body.kind = "invalid_json"
    /\ <<"customer.id", "c1">> \in ProcessSpanOf(1).attributes
    /\ <<"processing.decode_error", "True">> \in ProcessSpanOf(2).attributes
    /\ <<"messaging.message_id", "2">> \in ProcessSpanOf(2).attributes

(***************************************************************************)
(* Properties of the value the handler returns                             *)
(***************************************************************************)
\* the value the event alone determines
ReturnFor(ev) ==
    IF RecordsOf(ev) = <<>>
    THEN [kind |-> "value", ok |-> TRUE, source |-> "direct", processed |-> 0,
          batch_size |-> 0]
    ELSE [kind |-> "value", ok |-> TRUE, source |-> "sqs",
          processed |-> Len(RecordsOf(ev)), batch_size |-> Len(RecordsOf(ev))]

\* C14: the health of telemetry never changes the business result.  For the
\* same event the handler returns the same value and raises nothing, whether
\* force_flush succeeds, loses the spans to a failed transmission or gives
\* up at its timeout; what force_flush reports does not reach the caller.
C14_FlushNeverChangesResult ==
    (pc = "done" /\ ~skip_otel_init) =>
        /\ ret = ReturnFor(event)
        /\ flush_log # <<>>

\* the handler has returned from a batch whose flush gave up at the timeout
C14_Witness ==
    /\ pc = "done"
    /\ NumRecords >= 1
    /\ flush_log # <<>>
    /\ ~flush_log[Len(flush_log)].result
    /\ ret.kind = "value"
    /\ ret.ok

(***************************************************************************)
(* Properties of concurrent requests                                       *)
(***************************************************************************)
SpanIdsOf(r) == {req[r].spans[i].context.span_id : i \in DOMAIN req[r].spans}

TraceIdsOf(r) == {req[r].spans[i].context.trace_id : i \in DOMAIN req[r].spans}

\* C15: the stack of active spans is local to one call chain.  With requests
\* running concurrently in any interleaving of their steps, every span a
\* request opens has a span of the same request as parent (its root has
\* none) and carries the trace id of that request; no span has a span of
\* another request as parent or shares a trace id with one.
C15_StackIsPerRequest ==
    /\ \A r \in Requests :
           \A i \in DOMAIN req[r].spans :
               IF i = 1
               THEN ~is_valid(req[r].spans[i].parent)
               ELSE /\ \E j \in 1..(i - 1) :
                          req[r].spans[i].parent = req[r].spans[j].context
                    /\ req[r].spans[i].context.trace_id
                           = req[r].spans[1].context.trace_id
    /\ \A r1, r2 \in Requests :
           r1 # r2 =>
               /\ TraceIdsOf(r1) \cap TraceIdsOf(r2) = {}
               /\ \A i \in DOMAIN req[r1].spans :
                      req[r1].spans[i].parent.span_id \notin SpanIdsOf(r2)

\* request r runs onboard and is inside sqs.send, with three spans open
OnboardInsideSend(r) ==
    /\ req[r].endpoint = "onboard"
    /\ req[r].pc = "q_send"
    /\ Len(req[r].stack) = 3

\* two onboard requests are both inside sqs.send at the same time
C15_Witness ==
    /\ OnboardInsideSend(1)
    /\ OnboardInsideSend(2)
    /\ req[1].spans[1].context.trace_id # req[2].spans[1].context.trace_id

(***************************************************************************)
(* Properties of the spans of one onboard request                          *)
(***************************************************************************)
QueueSpans(rq) == {i \in DOMAIN rq.spans : rq.spans[i].name = "queue_for_processing"}

\* C17: within one onboard request every span carries the trace id of the
\* root span, the span ids are pairwise distinct, the parent of each step
\* span (queue_for_processing included) is the root span, and the parent of
\* sqs.send is queue_for_processing.
C17_OneTracePerRequest ==
    \A r \in Requests :
        req[r].endpoint = "onboard" =>
            /\ \A i \in DOMAIN req[r].spans :
                   req[r].spans[i].context.trace_id = req[r].spans[1].context.trace_id
            /\ \A i, j \in DOMAIN req[r].spans :
                   i # j => req[r].spans[i].context.span_id
                                # req[r].spans[j].context.span_id
            /\ \A i \in DOMAIN req[r].spans :
                   IF i = 1 THEN req[r].spans[i].name = "customer_onboarding_workflow"
                   ELSE IF req[r].spans[i].name = "sqs.send"
                   THEN /\ Cardinality(QueueSpans(req[r])) = 1
                        /\ \A q \in QueueSpans(req[r]) :
                               req[r].spans[i].parent = req[r].spans[q].context
                   ELSE req[r].spans[i].parent = req[r].spans[1].context

\* an onboard request has run every step: root, validation, enrichment,
\* existence check, record, Lambda trigger, queue with sqs.send, notification
C17_Witness ==
    \E r \in Requests :
        /\ req[r].endpoint = "onboard"
        /\ req[r].pc = "done"
        /\ Len(req[r].spans) = 9
        /\ req[r].spans[8].name = "sqs.send"
        /\ req[r].spans[9].name = "send_welcome_notification"

(***************************************************************************)
(* Properties of the links of sqs.batch                                    *)
(***************************************************************************)
\* the contexts written into the records of the batch, in record order,
\* those of the records without a valid traceparent left out
ValidOriginsInOrder ==
    SelectSeq([k \in 1..NumRecords |-> OriginOf(k)], is_valid)

\* C18: the links of sqs.batch are one link per record whose extracted
\* context is valid, in record order, two records of one trace giving two
\* links; a record whose extracted context is invalid gives none, so the
\* number of links is the number of records with a valid traceparent.
C18_LinksAreValidRecords ==
    \A b \in BatchSpans :
        /\ spans[b].links = ValidOriginsInOrder
        /\ Len(spans[b].links)
               = Cardinality({k \in 1..NumRecords : is_valid(OriginOf(k))})
        /\ Len(spans[b].links) <= NumRecords

\* a batch of a record without message attributes followed by a record with
\* a valid traceparent: one link, fewer than the batch size
C18_Witness ==
    /\ pc = "done"
    /\ NumRecords = 2
    /\ ~is_valid(OriginOf(1))
    /\ is_valid(OriginOf(2))
    /\ \E b \in BatchSpans : spans[b].links = <<OriginOf(2)>>

(***************************************************************************)
(* Properties of the count of processed records                            *)
(***************************************************************************)
HasDecodeError(span) == \E kv \in span.attributes : kv[1] = "processing.decode_error"

\* C19: for every batch with at least one record the handler returns
\* processed = batch_size = the number of records.  A record whose body is no
\* JSON, or is JSON but no object, is counted and does not keep the records
\* after it from being handled; processing.decode_error is set on the span
\* of a record only if its body failed to decode.
C19_ProcessedEqualsBatchSize ==
    /\ (pc = "done" /\ ~skip_otel_init /\ NumRecords >= 1) =>
           /\ ret.kind = "value"
           /\ ret.processed = NumRecords
           /\ ret.batch_size = NumRecords
           /\ Cardinality(ProcessSpans) = NumRecords
    /\ processed_count = Cardinality({i \in ProcessSpans : \A k \in DOMAIN stack : stack[k] # i})
    /\ \A k \in 1..NumRecords :
           HasProcessSpan(k) =>
               /\ HasDecodeError(ProcessSpanOf(k)) =>
                      RecordsOf(event)[k].body.kind = "invalid_json"
               /\ (RecordsOf(event)[k].body.kind = "invalid_json"
                   /\ ProcessSpanOf(k).recording /\ ProcessSpanOf(k).ended) =>
                      HasDecodeError(ProcessSpanOf(k))

\* a batch whose first record has a body that is no JSON, followed by a
\* record with a JSON object, was handled and both were counted
C19_Witness ==
    /\ pc = "done"
    /\ NumRecords = 2
    /\ RecordsOf(event)[1].body.kind = "invalid_json"
    /\ RecordsOf(event)[2].body.kind = "object"
    /\ ret.processed = 2
    /\ ret.batch_size = 2
    /\ HasDecodeError(ProcessSpanOf(1))
    /\ ~HasDecodeError(ProcessSpanOf(2))

(***************************************************************************)
(* Properties of the order of the steps of onboard                         *)
(***************************************************************************)
SpanNames(rq) == [i \in 1..Len(rq.spans) |-> rq.spans[i].name]

IsPrefix(s, t) == Len(s) <= Len(t) /\ \A i \in 1..Len(s) : s[i] = t[i]

\* the spans of a workflow that runs to its end, in the order in which they
\* are started; the notification is left out for an existing customer
StepsOfWorkflow(existing) ==
    <<"customer_onboarding_workflow", "validate_customer_request",
      "perform_customer_validation", "check_existing_customer",
      "create_customer_record", "trigger_async_processing",
      "queue_for_processing", "sqs.send">>
    \o (IF existing THEN <<>> ELSE <<"send_welcome_notification">>)

StepFailed(rq, name) ==
    \E i \in 1..Len(rq.spans) : rq.spans[i].name = name /\ rq.spans[i].status.code = "ERROR"

Answered(rq) == rq.pc \in {"root_exit", "done"}

\* C20: in onboard a failure of check_existing_customer,
\* trigger_async_processing, queue_for_processing or
\* send_welcome_notification does not end the workflow: the step reports
\* None / False, the steps after it run in the fixed order and the answer is
\* 200 or 206.  Only a ValidationError (400) and an exception of
\* create_customer_record (500) end the workflow, and no step runs after
\* them.
C20_OnlyValidationAndCreateAbort ==
    \A r \in Requests :
        req[r].endpoint = "onboard" =>
            /\ IsPrefix(SpanNames(req[r]), StepsOfWorkflow(req[r].existing))
            /\ StepFailed(req[r], "check_existing_customer") => ~req[r].existing
            /\ StepFailed(req[r], "trigger_async_processing") => ~req[r].lambda_success
            /\ StepFailed(req[r], "queue_for_processing") => ~req[r].queue_success
            /\ StepFailed(req[r], "send_welcome_notification") => ~req[r].notification_sent
            /\ (Answered(req[r]) /\ req[r].thrown = NoException) =>
                   /\ SpanNames(req[r]) = StepsOfWorkflow(req[r].existing)
                   /\ req[r].response.code \in {200, 206}
            /\ (Answered(req[r]) /\ req[r].thrown # NoException) =>
                   \/ /\ req[r].thrown.type = "ValidationError"
                      /\ req[r].response.code = 400
                      /\ SpanNames(req[r]) = SubSeq(StepsOfWorkflow(FALSE), 1, 2)
                   \/ /\ req[r].thrown.type # "ValidationError"
                      /\ req[r].response.code = 500
                      /\ SpanNames(req[r]) = SubSeq(StepsOfWorkflow(FALSE), 1, 5)
            /\ req[r].response.code \in {200, 206} =>
                   /\ ~StepFailed(req[r], "validate_customer_request")
                   /\ ~StepFailed(req[r], "create_customer_record")

\* one request was answered 206 after the check, the invocation, the queue
\* and the notification had all failed and every step had run; the other
\* was answered 500 when create_customer_record raised, with no step after it
C20_Witness ==
    /\ req[1].endpoint = "onboard" /\ req[1].pc = "done"
    /\ StepFailed(req[1], "check_existing_customer")
    /\ StepFailed(req[1], "trigger_async_processing")
    /\ StepFailed(req[1], "queue_for_processing")
    /\ StepFailed(req[1], "send_welcome_notification")
    /\ Len(req[1].spans) = Len(StepsOfWorkflow(FALSE))
    /\ req[1].response.code = 206
    /\ req[2].endpoint = "onboard" /\ req[2].pc = "done"
    /\ StepFailed(req[2], "create_customer_record")
    /\ req[2].response.code = 500
    /\ Len(req[2].spans) = 5

(***************************************************************************)
(* Properties of a request without a customer id                           *)
(***************************************************************************)
NoCustomerId(rq) ==
    rq.endpoint = "onboard"
    /\ rq.payload \in {"no_customer_id", "empty_customer_id", "not_json"}

LaterStepNames ==
    {"perform_customer_validation", "check_existing_customer", "create_customer_record",
     "trigger_async_processing", "queue_for_processing", "sqs.send",
     "send_welcome_notification"}

\* C21: a request to onboard whose body has no customer id (the key is
\* missing, its value is empty, or the body is no JSON) is answered 400
\* with status validation_error, and no later step is executed for it: no
\* record is created, no Lambda is triggered, no message is sent to the
\* queue and no notification is sent.
C21_MissingCustomerIdIs400 ==
    \A r \in Requests :
        NoCustomerId(req[r]) =>
            /\ \A i \in 1..Len(req[r].spans) : req[r].spans[i].name \notin LaterStepNames
            /\ \A i \in 1..Len(sent) : sent[i].request_id # r
            /\ ~req[r].lambda_success /\ ~req[r].queue_success /\ ~req[r].notification_sent
            /\ req[r].pc \in {"root", "validate", "root_exit", "done"}
            /\ req[r].pc \in {"root_exit", "done"} =>
                   /\ req[r].response = [code |-> 400, status |-> "validation_error"]
                   /\ req[r].thrown = Exc("ValidationError", "Customer ID is required")

\* a request with an empty customer id and one whose body is no JSON were
\* both answered 400, each with only its root span and the validation span
C21_Witness ==
    /\ req[1].endpoint = "onboard" /\ req[1].payload = "empty_customer_id"
    /\ req[1].pc = "done" /\ req[1].response.code = 400
    /\ Len(req[1].spans) = 2
    /\ req[2].endpoint = "onboard" /\ req[2].payload = "not_json"
    /\ req[2].pc = "done" /\ req[2].response.code = 400
    /\ Len(req[2].spans) = 2

(***************************************************************************)
(* Properties of the answer of a completed workflow                        *)
(***************************************************************************)
Completed(rq) ==
    rq.endpoint = "onboard" /\ rq.pc \in {"root_exit", "done"} /\ rq.thrown = NoException

Attempted(rq, name) == \E i \in 1..Len(rq.spans) : rq.spans[i].name = name

HttpStatusAttr(rq) == {kv[2] : kv \in {a \in rq.spans[1].attributes : a[1] = "http.status_code"}}

\* C22: a completed workflow of onboard answers 200 with status success
\* exactly when the Lambda trigger and the queue send both succeeded, and
\* 206 with status partial_success otherwise; the outcome of the
\* notification does not change the code.  The notification is attempted
\* only for a customer that does not exist yet, and is reported as skipped
\* for an existing one.
C22_SuccessIffLambdaAndQueue ==
    /\ \A r \in Requests :
          Completed(req[r]) =>
              /\ req[r].response =
                     IF req[r].lambda_success /\ req[r].queue_success
                     THEN [code |-> 200, status |-> "success"]
                     ELSE [code |-> 206, status |-> "partial_success"]
              /\ HttpStatusAttr(req[r]) = {ToString(req[r].response.code)}
              /\ Attempted(req[r], "send_welcome_notification") <=> ~req[r].existing
              /\ req[r].existing =>
                     ~req[r].notification_sent /\ req[r].notification_report = "skipped"
              /\ ~req[r].existing =>
                     req[r].notification_report =
                         IF req[r].notification_sent THEN "sent" ELSE "failed"
    /\ \A r1, r2 \in Requests :
          (/\ Completed(req[r1]) /\ Completed(req[r2])
           /\ req[r1].lambda_success = req[r2].lambda_success
           /\ req[r1].queue_success = req[r2].queue_success) =>
              req[r1].response.code = req[r2].response.code
    /\ \A r \in Requests :
          (req[r].endpoint = "onboard" /\ Attempted(req[r], "send_welcome_notification")) =>
              ~req[r].existing

\* one new customer was answered 200 although the notification failed; one
\* existing customer was answered 206 after a failed trigger, with the
\* notification skipped
C22_Witness ==
    /\ Completed(req[1]) /\ req[1].pc = "done"
    /\ ~req[1].existing /\ ~req[1].notification_sent
    /\ req[1].notification_report = "failed"
    /\ req[1].response.code = 200
    /\ Completed(req[2]) /\ req[2].pc = "done"
    /\ req[2].existing /\ req[2].notification_report = "skipped"
    /\ ~req[2].lambda_success /\ req[2].queue_success
    /\ req[2].response.code = 206

(***************************************************************************)
(* Properties of queue_for_processing and of the smoke test                *)
(***************************************************************************)
QueueReturned(rq) ==
    /\ rq.endpoint \in {"onboard", "smoke"}
    /\ Attempted(rq, "queue_for_processing")
    /\ rq.pc \notin {"q_producer", "q_inject", "q_send", "q_exit"}

QueueSpanOf(rq) ==
    rq.spans[CHOOSE i \in 1..Len(rq.spans) : rq.spans[i].name = "queue_for_processing"]

MessageSentBy(r) == \E i \in 1..Len(sent) : sent[i].request_id = r

\* C23: queue_for_processing does not raise.  It returns True exactly when
\* send_message returned without an exception; otherwise it returns False
\* after it has set status ERROR and aws.sqs.message_sent = False on the
\* span queue_for_processing.  telemetry_smoke answers 200 "queued" exactly
\* when it returned True, and 500 "failed" otherwise.
C23_QueueNeverRaises ==
    \A r \in Requests :
        /\ QueueReturned(req[r]) =>
               /\ req[r].thrown = NoException /\ req[r].caught = NoException
               /\ req[r].pc \in {"notify", "respond", "smoke_end", "root_exit", "done"}
               /\ QueueSpanOf(req[r]).ended
               /\ req[r].queue_success <=> MessageSentBy(r)
               /\ req[r].queue_success =>
                      /\ QueueSpanOf(req[r]).status.code # "ERROR"
                      /\ <<"aws.sqs.message_sent", "True">> \in QueueSpanOf(req[r]).attributes
               /\ ~req[r].queue_success =>
                      /\ QueueSpanOf(req[r]).status.code = "ERROR"
                      /\ <<"aws.sqs.message_sent", "False">> \in QueueSpanOf(req[r]).attributes
                      /\ <<"aws.sqs.message_sent", "True">> \notin QueueSpanOf(req[r]).attributes
        /\ (req[r].endpoint = "smoke" /\ req[r].pc \in {"root_exit", "done"}) =>
               /\ QueueReturned(req[r])
               /\ req[r].response =
                      IF req[r].queue_success THEN [code |-> 200, status |-> "queued"]
                                              ELSE [code |-> 500, status |-> "failed"]

\* one smoke test was answered 500 after send_message had raised, the other
\* 200 after its message had been sent
C23_Witness ==
    /\ req[1].endpoint = "smoke" /\ req[1].pc = "done"
    /\ ~req[1].queue_success /\ ~MessageSentBy(1)
    /\ QueueSpanOf(req[1]).status.code = "ERROR"
    /\ req[1].response.code = 500
    /\ req[2].endpoint = "smoke" /\ req[2].pc = "done"
    /\ req[2].queue_success /\ MessageSentBy(2)
    /\ req[2].response.code = 200

(***************************************************************************)
(* Properties of the direct invocation and of SKIP_OTEL_INIT                *)
(***************************************************************************)
NamesOfSpans == [i \in 1..Len(spans) |-> spans[i].name]

DirectEvent == ~event.is_dict \/ ~event.has_Records \/ event.Records = <<>>

\* C24: when the event is not a mapping or has no Records, or an empty list
\* of them, the handler takes the direct path: lambda.direct_invoke is
\* opened as a child of lambda.invoke, no sqs.process and no sqs.batch span
\* is created, force_flush is called once and the value returned has
\* ok = True and source = direct.  With SKIP_OTEL_INIT set the handler
\* creates no span, handles no record and returns nothing.
C24_DirectInvocationPath ==
    /\ (DirectEvent /\ ~skip_otel_init /\ pc # "idle") =>
           /\ IsPrefix(NamesOfSpans, <<"lambda.invoke", "lambda.direct_invoke">>)
           /\ Len(flush_log) <= 1
           /\ processed_count = 0
           /\ Len(spans) = 2 =>
                  /\ spans[2].parent = spans[1].context
                  /\ spans[2].context.trace_id = spans[1].context.trace_id
                  /\ spans[2].context.span_id # spans[1].context.span_id
           /\ pc = "done" =>
                  /\ Len(spans) = 2
                  /\ spans[1].ended /\ spans[2].ended
                  /\ Len(flush_log) = 1
                  /\ ret = [kind |-> "value", ok |-> TRUE, source |-> "direct",
                            processed |-> 0, batch_size |-> 0]
    /\ (skip_otel_init /\ pc # "idle") =>
           /\ spans = <<>>
           /\ stack = <<>>
           /\ flush_log = <<>>
           /\ processed_count = 0
           /\ links = <<>>
           /\ pc \in {"start", "done"}
           /\ pc = "done" => ret.kind = "none"
    /\ (~DirectEvent /\ pc # "idle") =>
           \A i \in 1..Len(spans) : spans[i].name # "lambda.direct_invoke"

\* a mapping without the key Records was answered on the direct path
C24_Witness ==
    /\ event.is_dict /\ ~event.has_Records
    /\ ~skip_otel_init
    /\ pc = "done"
    /\ NamesOfSpans = <<"lambda.invoke", "lambda.direct_invoke">>
    /\ spans[2].parent = spans[1].context
    /\ Len(flush_log) = 1
    /\ ret.source = "direct" /\ ret.ok

\* with SKIP_OTEL_INIT set the handler has returned from a batch of two
\* records without a span
C24_WitnessSkip ==
    /\ skip_otel_init
    /\ NumRecords = 2
    /\ pc = "done"
    /\ spans = <<>>
    /\ ret.kind = "none"

====
